---- MODULE Spec2Model ----
(***************************************************************************)
(* Booking lifecycle and payment reconciliation of the parcel-delivery     *)
(* backend: the bookings collection, the temp_bookings (staged) collection *)
(* and the HTTP handlers that mutate them, modelled at the granularity of  *)
(* their awaits (every Firestore read or write is one step, so concurrent  *)
(* requests interleave exactly where the code yields).                     *)
(*                                                                         *)
(* Strings that the code splits on "-" are kept as the sequence of their   *)
(* hyphen-separated segments: "PW-30-10-2026-001" is                       *)
(* <<"PW","30","10","2026","001">>, so split("-") and join are the         *)
(* identity on the representation and parts[0] is the first segment.       *)
(***************************************************************************)
EXTENDS Integers, Sequences, FiniteSets, TLC

\* ---------------------------------------------------------------- bounds
MaxBookings == 2      \* createBooking calls that may reach the store
MaxPages    == 1      \* payment pages the gateway is asked to create
MaxTicks    == 1      \* times the clock is advanced
MaxRoutes == 2       \* documents of city_routes

\* ------------------------------------------------------ program constants
TtlMs        == 3600000   \* staged record expiry: now + 60*60*1000
GraceDelayMs == 60000     \* setTimeout before the staged record is deleted
DayMs        == 86400000  \* width of the [startOfDay, endOfDay) window

Reqs     == {1, 2}                        \* concurrently open HTTP requests
Users    == {"u1", "u2"}                  \* authenticated non-admin callers
NoFare   == -1                            \* fare === undefined
NoTime   == -1                            \* a timestamp field that is not set

\* POST /bookings bodies that pass the controller's validation:
\* caller, pickup/drop/parcelDetails bundle, fare, paymentMethod
DirectRequests ==
  { [userId |-> "u1", payload |-> "pA", fare |-> 100,    method |-> "cod"],
    [userId |-> "u2", payload |-> "pB", fare |-> 100,    method |-> "online"],
    [userId |-> "u1", payload |-> "pA", fare |-> NoFare, method |-> "none"] }

BookingStatuses == {"PendingPayment", "Created", "Picked", "Shipped",
                    "Delivered", "Returned"}
TxnStatuses     == {"SUCCESS", "FAILED", "PENDING"}

NoId   == << >>
NoData == [userId |-> "", payload |-> "", fare |-> NoFare, method |-> ""]
NoSnap == [status |-> "", paymentStatus |-> ""]
NoTemp == [userId |-> "", payload |-> "", fare |-> NoFare,
           merchantReferenceId |-> NoId, bookingId |-> NoId, expiresAt |-> -1]

VARIABLES
  bookings,   \* collection "bookings": document id -> document
  temp,       \* collection "temp_bookings": tempId -> staged record
  timers,     \* pending setTimeout callbacks: {[tempId, due]}
  gateway,    \* merchant reference ids the gateway created a page for
  clock,      \* Date.now() in ms
  ticks,      \* number of clock advances so far
  req,        \* open requests: slot -> handler activation record
  last,       \* the most recent HTTP answer: [kind, resp, success], the
              \* push notifications its request dispatched (sent) and
              \* the amounts of its data (out)
  made,       \* history: origin (merchant ref or <<"direct">>) -> number of
              \* booking documents written by createBooking for that origin
  failed,     \* history: merchant reference ids whose FAILED outcome
              \* handleWebhook has processed (staged record deleted)
  quote,      \* the fare data: collection "city_routes" (routes, in
              \* snapshot order) and the document settings/pricing
  coupons     \* collection "coupons" (docs, in snapshot order)

vars == <<bookings, temp, timers, gateway, clock, ticks, req, last, made,
          failed, quote, coupons>>

\* ------------------------------------------------------------- helpers
Pad2(n) == IF n < 10 THEN "0" \o ToString(n) ELSE ToString(n)
Pad3(n) == IF n < 10 THEN "00" \o ToString(n)
           ELSE IF n < 100 THEN "0" \o ToString(n) ELSE ToString(n)

\* The model's epoch is 00:00 local time on 1 January 2026.
DateSegs(now) == << Pad2(1 + (now \div DayMs)), "01", "2026" >>

\* generateBookingId: PW-DD-MM-YYYY-NNN, NNN = (bookings created today) + 1.
\* Every booking of the model is created within the first day (MaxTicks
\* advances of at most TtlMs), so "today's bookings" is the whole collection.
generateBookingId(bks, now) ==
  <<"PW">> \o DateSegs(now) \o << Pad3(Cardinality(DOMAIN bks) + 1) >>

\* merchantReferenceId.replace(/[^a-zA-Z0-9_-]/g, "_"), segment by segment.
\* "u#" is the only segment of the model with a character outside the class.
SanitizeSeg(s) == IF s = "u#" THEN "u_" ELSE s
Sanitize(ref) == [i \in 1..Len(ref) |-> SanitizeSeg(ref[i])]

\* merchantReferenceId.startsWith("temp-")
IsTempRef(ref) == Len(ref) >= 2 /\ ref[1] = "temp"

\* merchantReferenceId.split("-")[0], as a document id
FirstPart(ref) == << ref[1] >>

\* `${bookingId}-${Date.now()}`
BookingRef(bid, now) == bid \o << ToString(now) >>
\* `temp-${userId}-${Date.now()}` followed by `-${Date.now()}`
TempRef(uid, now) == << "temp", uid, ToString(now), ToString(now) >>

Put(f, k, v) == [x \in (DOMAIN f) \cup {k} |-> IF x = k THEN v ELSE f[x]]
Drop(f, k)   == [x \in (DOMAIN f) \ {k} |-> f[x]]

RECURSIVE SumOver(_, _)
SumOver(f, S) == IF S = {} THEN 0
                 ELSE LET k == CHOOSE k \in S : TRUE
                      IN f[k] + SumOver(f, S \ {k})
TotalMade == SumOver(made, DOMAIN made)
Bump(f, k) == Put(f, k, (IF k \in DOMAIN f THEN f[k] ELSE 0) + 1)

\* ---- values of the fare handlers that a request slot carries
\* a field of a request body, or of a stored document, that is undefined
NotGiven == -1
NoFareOut == [baseFare |-> 0, gst |-> 0, totalFare |-> 0]
\* no city route (getCityRoute's null, an empty query snapshot)
NoRoute == [id |-> 0, fromCity |-> "", toCity |-> "", baseFare |-> 0,
            heavyFare |-> 0, gstPercent |-> 0, isActive |-> FALSE]
NoSettings == [baseRates |-> << >>, gstPercent |-> NotGiven]
NoPricingBody == [hasRates |-> FALSE, baseRates |-> << >>,
                  gstPercent |-> NotGiven]
NoBody == [pickupCity |-> "", dropCity |-> "", pickupPincode |-> "",
           dropPincode |-> "", coords |-> "none", coordsKm |-> 0,
           weight |-> 0, couponCode |-> ""]
\* the locals of calculateBookingFare
NoQ == [body |-> NoBody, distanceInKm |-> NotGiven, via |-> "",
        route |-> NoRoute, settings |-> NoSettings, fare |-> NoFareOut]
NoRouteData == [fromCity |-> "", toCity |-> "", baseFare |-> 0,
                heavyFare |-> 0, gstPercent |-> 0]
\* no coupon (an empty query snapshot)
NoCoupon == [id |-> 0, code |-> "", isActive |-> FALSE, validFrom |-> 0,
             validUntil |-> 0, minOrderAmount |-> 0, maxUsage |-> 0,
             currentUsage |-> 0, discountType |-> "", discountValue |-> 0,
             maxDiscountAmount |-> 0]
\* the data of an answer that carries no amounts
NoOut == [distanceInKm |-> 0, baseFare |-> 0, gst |-> 0, totalFare |-> 0,
          finalFare100 |-> 0, discountAmount100 |-> 0,
          couponValid |-> FALSE, coupon |-> NoCoupon]

\* settings/pricing is absent
NoPricing == [exists |-> FALSE, hasRates |-> FALSE, baseRates |-> << >>,
              gstPercent |-> NotGiven]
\* the collection city_routes (in the order in which Firestore returns its
\* documents) and the document settings/pricing, both empty
NoQuote == [routes |-> << >>, pricing |-> NoPricing]
\* the collection coupons, empty
NoCouponStore == [docs |-> << >>]

\* ------------------------------------------------------- request slots
Idle == [kind |-> "none", pc |-> "idle", uid |-> "", role |-> "",
         ref |-> NoId, bid |-> NoId, arg |-> "", reason |-> "",
         data |-> NoData, tn |-> NoId, snap |-> NoSnap, txn |-> "",
         calledAt |-> NoTime, sent |-> {},
         q |-> NoQ, routeData |-> NoRouteData, routeId |-> 0,
         pricing |-> NoPricingBody, before |-> NoSnap, after |-> NoSnap]

NoAnswer == [kind |-> "none", resp |-> 0, success |-> FALSE, sent |-> {},
             out |-> NoOut]

\* Requests are interchangeable: a new one takes the first free slot.
Free(r) == /\ req[r].pc = "idle"
           /\ \A q \in Reqs : req[q].pc = "idle" => r <= q

\* handleWebhook's catch block: "Still return 200 to prevent Paygic from
\* retrying"; every other handler hands the error to next(error), and the
\* global error handler answers with err.statusCode.
WebhookCatchStatusPassThrough(code) == code
WebhookCatchStatus(code) == 200
ThrownStatus(kind, code) ==
  IF kind = "webhook" THEN WebhookCatchStatus(code) ELSE code

\* res.status(code): request r is answered and its slot is released.
\* notes are the notifications dispatched in this very step
AnswerAfter(r, code, notes) ==
  /\ req' = [req EXCEPT ![r] = Idle]
  /\ last' = [kind |-> req[r].kind, resp |-> code, success |-> TRUE,
              sent |-> req[r].sent \cup notes, out |-> NoOut]
Answer(r, code) == AnswerAfter(r, code, {})
\* res.json({ success, data }): an answer that carries amounts
AnswerWith(r, success, out) ==
  /\ req' = [req EXCEPT ![r] = Idle]
  /\ last' = [kind |-> req[r].kind, resp |-> 200, success |-> success,
              sent |-> {}, out |-> out]
\* an error thrown inside request r's try block: success: false
Throw(r, code) ==
  /\ req' = [req EXCEPT ![r] = Idle]
  /\ last' = [kind |-> req[r].kind, resp |-> ThrownStatus(req[r].kind, code),
              success |-> FALSE, sent |-> req[r].sent, out |-> NoOut]
\* a request that fails before its first await (it never occupies a slot)
Reply(kind, code) ==
  /\ last' = [kind |-> kind, resp |-> ThrownStatus(kind, code),
              success |-> FALSE, sent |-> {}, out |-> NoOut]
  /\ UNCHANGED req
\* request r continues at its next await
Goto(r, slot) ==
  /\ req' = [req EXCEPT ![r] = slot]
  /\ UNCHANGED last

InCreate(r) == req[r].pc \in {"cb_id", "cb_set"}

Init ==
  /\ bookings = << >>
  /\ temp = << >>
  /\ timers = {}
  /\ gateway = {}
  /\ clock = 0
  /\ ticks = 0
  /\ req = [r \in Reqs |-> Idle]
  /\ last = NoAnswer
  /\ made = << >>
  /\ failed = {}
  /\ quote = NoQuote
  /\ coupons = NoCouponStore

\* ------------------------------------------------------------ the clock
Tick(d) ==
  /\ ticks < MaxTicks
  /\ clock' = clock + d
  /\ ticks' = ticks + 1
  /\ UNCHANGED <<bookings, temp, timers, gateway, req, last, made, failed, quote, coupons>>

\* ------------------------------------------ createBooking (service) steps
\* status chosen by createBooking for a payment method
InitialStatus(method) == IF method = "online" THEN "PendingPayment"
                         ELSE "Created"

NewBookingDoc(data, tn) ==
  [userId |-> data.userId, payload |-> data.payload,
   status |-> InitialStatus(data.method), paymentStatus |-> "pending",
   paymentMethod |-> data.method, fare |-> data.fare,
   trackingNumber |-> tn, returnReason |-> "", returnedAt |-> NoTime]

\* POST /bookings (controller): validation passed, service entered.
StartCreateBooking(r, body) ==
  /\ Free(r)
  /\ Goto(r, [Idle EXCEPT !.kind = "create", !.pc = "cb_tracking",
                          !.uid = body.userId, !.role = "user",
                          !.data = body])
  /\ UNCHANGED <<bookings, temp, timers, gateway, clock, ticks, made, failed, quote, coupons>>

\* const trackingNumber = await generateTrackingNumber()
CbTracking(r) ==
  /\ req[r].pc = "cb_tracking"
  /\ TotalMade + Cardinality({q \in Reqs : InCreate(q)}) < MaxBookings
  /\ Goto(r, [req[r] EXCEPT !.tn = generateBookingId(bookings, clock),
                            !.pc = "cb_id"])
  /\ UNCHANGED <<bookings, temp, timers, gateway, clock, ticks, made, failed, quote, coupons>>

\* const bookingId = await generateBookingId()
CbGenId(r) ==
  /\ req[r].pc = "cb_id"
  /\ Goto(r, [req[r] EXCEPT !.bid = generateBookingId(bookings, clock),
                            !.pc = "cb_set"])
  /\ UNCHANGED <<bookings, temp, timers, gateway, clock, ticks, made, failed, quote, coupons>>

Origin(slot) == IF slot.kind = "webhook" THEN slot.ref ELSE <<"direct">>

\* await bookingRef.set(...): overwrites whatever document has that id.
\* ok = FALSE is a store failure, which createBooking rethrows as 500.
CbSet(r, ok) ==
  /\ req[r].pc = "cb_set"
  /\ IF ok
     THEN /\ bookings' = Put(bookings, req[r].bid,
                             NewBookingDoc(req[r].data, req[r].tn))
          /\ made' = Bump(made, Origin(req[r]))
          /\ Goto(r, [req[r] EXCEPT !.pc = "cb_get"])
     ELSE /\ Throw(r, 500)
          /\ UNCHANGED <<bookings, made>>
  /\ UNCHANGED <<temp, timers, gateway, clock, ticks, failed, quote, coupons>>

\* const bookingDoc = await bookingRef.get(): the read-back createBooking
\* returns.  ok = FALSE is a store failure, rethrown as 500 with the
\* document stored.  The controller answers 201; handleWebhook goes on to
\* updatePaymentStatus(booking.id, "paid").
CbGet(r, ok) ==
  /\ req[r].pc = "cb_get"
  /\ IF ok
     THEN IF req[r].kind = "webhook"
          THEN Goto(r, [req[r] EXCEPT !.pc = "ups_read", !.arg = "paid"])
          ELSE Answer(r, 201)
     ELSE Throw(r, 500)
  /\ UNCHANGED <<bookings, temp, timers, gateway, clock, ticks, made, failed, quote, coupons>>

\* -------------------------------------- updatePaymentStatus (service) steps
\* createError("Booking not found", 404) is thrown inside the try block and
\* the catch rethrows it as createError("Failed to update payment status", 500)
UpsWrappedStatus(code) == 500

\* updateData of updatePaymentStatus, merged into the stored document:
\* the status is advanced only when the document READ EARLIER was
\* PendingPayment and the new payment status is paid.
PaymentUpdate(doc, snap, paymentStatus) ==
  IF paymentStatus = "paid" /\ snap.status = "PendingPayment"
  THEN [doc EXCEPT !.paymentStatus = paymentStatus, !.status = "Created"]
  ELSE [doc EXCEPT !.paymentStatus = paymentStatus]

\* statusChanged of updatePaymentStatus, from the document it read earlier
StatusChanged(bookingData, paymentStatus) ==
  paymentStatus = "paid" /\ bookingData.status = "PendingPayment"

\* The notifications updatePaymentStatus dispatches after its update, from
\* the document it read earlier (bookingData).  The promises are not
\* awaited and a rejection is only logged.  A notification is kept as its
\* type and the transition it reports; it goes to the booking's user.
\* sendPaymentStatusNotification, inside `if (bookingData.paymentStatus !==
\* paymentStatus)`, only for paid and pending:
PaymentNotifications(bookingData, paymentStatus) ==
  IF bookingData.paymentStatus # paymentStatus
     /\ paymentStatus \in {"paid", "pending"}
  THEN {[type |-> "payment_status_update", oldStatus |-> "",
         newStatus |-> paymentStatus]}
  ELSE {}
\* sendBookingStatusNotification, inside `if (statusChanged)`:
ConfirmationNotifications(bookingData, paymentStatus) ==
  IF StatusChanged(bookingData, paymentStatus)
  THEN {[type |-> "booking_status_update", oldStatus |-> "PendingPayment",
         newStatus |-> "Created"]}
  ELSE {}

\* updatePaymentStatus has returned to its caller, which dispatched notes in
\* this step: the PATCH controller reads the booking back, the staged
\* webhook path attaches the booking id, the other callers answer 200.
UpsReturn(r, notes) ==
  IF req[r].kind = "patchPayment"
  THEN Goto(r, [req[r] EXCEPT !.pc = "ups_get", !.sent = @ \cup notes,
                              !.before = NoSnap, !.after = NoSnap])
  ELSE IF req[r].kind = "webhook" /\ IsTempRef(req[r].ref)
  THEN Goto(r, [req[r] EXCEPT !.pc = "wh_attach", !.sent = @ \cup notes,
                              !.before = NoSnap, !.after = NoSnap])
  ELSE AnswerAfter(r, 200, notes)

\* const bookingDoc = await db.collection("bookings").doc(bookingId).get()
UpsRead(r) ==
  /\ req[r].pc = "ups_read"
  /\ IF req[r].bid \in DOMAIN bookings
     THEN Goto(r, [req[r] EXCEPT
            !.snap = [status |-> bookings[req[r].bid].status,
                      paymentStatus |-> bookings[req[r].bid].paymentStatus],
            !.pc = "ups_write"])
     ELSE Throw(r, UpsWrappedStatus(404))
  /\ UNCHANGED <<bookings, temp, timers, gateway, clock, ticks, made, failed, quote, coupons>>

\* await db.collection("bookings").doc(bookingId).update(updateData)
\* ok = FALSE is a store failure (rethrown as 500).  The function then
\* awaits the import of the notification module, once for each of its two
\* `if` blocks that applies, and returns when none (is left).  While it
\* waits, the slot remembers (history, not program state) what the update
\* replaced (before) and what it stored (after).
UpsWrite(r, ok) ==
  /\ req[r].pc = "ups_write"
  /\ IF ok /\ req[r].bid \in DOMAIN bookings
     THEN LET old == bookings[req[r].bid]
              new == PaymentUpdate(old, req[r].snap, req[r].arg)
              slot == [req[r] EXCEPT
                         !.before = [status |-> old.status,
                                     paymentStatus |-> old.paymentStatus],
                         !.after = [status |-> new.status,
                                    paymentStatus |-> new.paymentStatus]]
          IN /\ bookings' = [bookings EXCEPT ![req[r].bid] = new]
             /\ IF req[r].snap.paymentStatus # req[r].arg
                THEN Goto(r, [slot EXCEPT !.pc = "ups_notifyPayment"])
                ELSE IF StatusChanged(req[r].snap, req[r].arg)
                THEN Goto(r, [slot EXCEPT !.pc = "ups_notifyStatus"])
                ELSE UpsReturn(r, {})
     ELSE /\ Throw(r, UpsWrappedStatus(500))
          /\ UNCHANGED bookings
  /\ UNCHANGED <<temp, timers, gateway, clock, ticks, made, failed, quote, coupons>>

\* const { sendPaymentStatusNotification } = await import(...), then the
\* dispatch for paid and pending
UpsNotifyPayment(r) ==
  /\ req[r].pc = "ups_notifyPayment"
  /\ LET notes == PaymentNotifications(req[r].snap, req[r].arg)
     IN IF StatusChanged(req[r].snap, req[r].arg)
        THEN Goto(r, [req[r] EXCEPT !.pc = "ups_notifyStatus",
                                    !.sent = @ \cup notes])
        ELSE UpsReturn(r, notes)
  /\ UNCHANGED <<bookings, temp, timers, gateway, clock, ticks, made, failed, quote, coupons>>

\* const { sendBookingStatusNotification } = await import(...), then the
\* dispatch of PendingPayment -> Created
UpsNotifyStatus(r) ==
  /\ req[r].pc = "ups_notifyStatus"
  /\ UpsReturn(r, ConfirmationNotifications(req[r].snap, req[r].arg))
  /\ UNCHANGED <<bookings, temp, timers, gateway, clock, ticks, made, failed, quote, coupons>>

\* controller: const updatedBooking = await getBookingById(id), then
\* res.json; ok = FALSE is a store failure, which getBookingById throws
\* as 500 (a missing document is answered 200 with booking: null)
UpsGet(r, ok) ==
  /\ req[r].pc = "ups_get"
  /\ IF ok THEN Answer(r, 200) ELSE Throw(r, 500)
  /\ UNCHANGED <<bookings, temp, timers, gateway, clock, ticks, made, failed, quote, coupons>>

\* PATCH /bookings/:id/payment-status: requireRole("admin") answers 403
\* before the controller validates the body
ValidPaymentStatuses == {"pending", "paid", "failed", "refunded"}
StartPatchPayment(r, role, bid, paymentStatus) ==
  /\ Free(r)
  /\ IF role # "admin" THEN Reply("patchPayment", 403)
     ELSE IF paymentStatus \notin ValidPaymentStatuses
     THEN Reply("patchPayment", 400)
     ELSE Goto(r, [Idle EXCEPT !.kind = "patchPayment", !.pc = "ups_read",
                               !.role = role, !.bid = bid,
                               !.arg = paymentStatus])
  /\ UNCHANGED <<bookings, temp, timers, gateway, clock, ticks, made, failed, quote, coupons>>

\* --------------------------------------- updateBookingStatus (both layers)
ValidStatuses == {"Created", "Picked", "Shipped", "Delivered", "Returned"}

\* PATCH /bookings/:id/status (controller), up to its first await
StartPatchStatusWithoutReasonCheck(r, uid, role, bid, status, reason) ==
  /\ Free(r)
  /\ IF status \notin ValidStatuses THEN Reply("patchStatus", 400)
     ELSE Goto(r, [Idle EXCEPT !.kind = "patchStatus", !.pc = "ubs_ctl",
                               !.uid = uid, !.role = role, !.bid = bid,
                               !.arg = status, !.reason = reason])
  /\ UNCHANGED <<bookings, temp, timers, gateway, clock, ticks, made, failed, quote, coupons>>
StartPatchStatus(r, uid, role, bid, status, reason) ==
  /\ Free(r)
  /\ IF status \notin ValidStatuses THEN Reply("patchStatus", 400)
     ELSE IF status = "Returned" /\ reason = "" THEN Reply("patchStatus", 400)
     ELSE Goto(r, [Idle EXCEPT !.kind = "patchStatus", !.pc = "ubs_ctl",
                               !.uid = uid, !.role = role, !.bid = bid,
                               !.arg = status, !.reason = reason])
  /\ UNCHANGED <<bookings, temp, timers, gateway, clock, ticks, made, failed, quote, coupons>>

\* Only admin can update status, or a user their own booking to "Created"
MayUpdateStatus(role, uid, booking, status) ==
  ~ (role # "admin" /\ (booking.userId # uid \/ status # "Created"))

\* const booking = await bookingService.getBookingById(id), then the check
UbsCtl(r) ==
  /\ req[r].pc = "ubs_ctl"
  /\ IF req[r].bid \notin DOMAIN bookings THEN Throw(r, 404)
     ELSE IF ~ MayUpdateStatus(req[r].role, req[r].uid,
                               bookings[req[r].bid], req[r].arg)
     THEN Throw(r, 403)
     ELSE Goto(r, [req[r] EXCEPT !.pc = "ubs_read"])
  /\ UNCHANGED <<bookings, temp, timers, gateway, clock, ticks, made, failed, quote, coupons>>

\* service: read the document to remember oldStatus
UbsRead(r) ==
  /\ req[r].pc = "ubs_read"
  /\ IF req[r].bid \in DOMAIN bookings
     THEN Goto(r, [req[r] EXCEPT
            !.snap = [status |-> bookings[req[r].bid].status,
                      paymentStatus |-> bookings[req[r].bid].paymentStatus],
            !.pc = "ubs_write"])
     ELSE Throw(r, 500)
  /\ UNCHANGED <<bookings, temp, timers, gateway, clock, ticks, made, failed, quote, coupons>>

\* updateData of updateBookingStatus merged into the stored document
\* (returnedAt is the server timestamp of the write, now)
StatusUpdate(doc, status, reason, now) ==
  IF status = "Returned" /\ reason # ""
  THEN [doc EXCEPT !.status = status, !.returnReason = reason,
                   !.returnedAt = now]
  ELSE [doc EXCEPT !.status = status]

\* The notification updateBookingStatus dispatches after its update when
\* the status it read earlier differs from the one it wrote.
StatusNotifications(oldStatus, status) ==
  IF oldStatus # status
  THEN {[type |-> "booking_status_update", oldStatus |-> oldStatus,
         newStatus |-> status]}
  ELSE {}

\* service: await ...update(updateData); then the import of the
\* notification module when the status read earlier differs, else return
UbsWrite(r) ==
  /\ req[r].pc = "ubs_write"
  /\ LET old == bookings[req[r].bid]
         new == StatusUpdate(old, req[r].arg, req[r].reason, clock)
     IN /\ bookings' = [bookings EXCEPT ![req[r].bid] = new]
        /\ IF req[r].snap.status # req[r].arg
           THEN Goto(r, [req[r] EXCEPT !.pc = "ubs_notify",
                           !.before = [status |-> old.status,
                                       paymentStatus |-> old.paymentStatus],
                           !.after = [status |-> new.status,
                                      paymentStatus |-> new.paymentStatus]])
           ELSE Goto(r, [req[r] EXCEPT !.pc = "ubs_get"])
  /\ UNCHANGED <<temp, timers, gateway, clock, ticks, made, failed, quote, coupons>>

\* const { sendBookingStatusNotification } = await import(...), then the
\* dispatch; the service returns to the controller
UbsNotify(r) ==
  /\ req[r].pc = "ubs_notify"
  /\ Goto(r, [req[r] EXCEPT !.pc = "ubs_get",
         !.before = NoSnap, !.after = NoSnap,
         !.sent = @ \cup StatusNotifications(req[r].snap.status, req[r].arg)])
  /\ UNCHANGED <<bookings, temp, timers, gateway, clock, ticks, made, failed, quote, coupons>>

\* controller: const updatedBooking = await getBookingById(id), then
\* res.json; ok = FALSE is a store failure (500)
UbsGet(r, ok) ==
  /\ req[r].pc = "ubs_get"
  /\ IF ok THEN Answer(r, 200) ELSE Throw(r, 500)
  /\ UNCHANGED <<bookings, temp, timers, gateway, clock, ticks, made, failed, quote, coupons>>

\* ------------------------------------------------- updateFare (both layers)
\* the catch block of the service rethrows every error, the 400 and the 404
\* it created included, as createError("Failed to update fare", 500)
UfWrappedStatus(code) == 500

\* PATCH /bookings/:id/fare: requireRole("admin"), then the controller's
\* checks (fare = NoFare is a body without a fare), then the service's own
StartPatchFare(r, role, bid, fare) ==
  /\ Free(r)
  /\ IF role # "admin" THEN Reply("patchFare", 403)
     ELSE IF fare = NoFare THEN Reply("patchFare", 400)
     ELSE IF fare < 0 THEN Reply("patchFare", 400)
     ELSE Goto(r, [Idle EXCEPT !.kind = "patchFare", !.pc = "uf_read",
                               !.role = role, !.bid = bid,
                               !.data = [NoData EXCEPT !.fare = fare]])
  /\ UNCHANGED <<bookings, temp, timers, gateway, clock, ticks, made, failed, quote, coupons>>

\* const bookingDoc = await db.collection("bookings").doc(bookingId).get()
UfRead(r) ==
  /\ req[r].pc = "uf_read"
  /\ IF req[r].bid \in DOMAIN bookings
     THEN Goto(r, [req[r] EXCEPT !.pc = "uf_write"])
     ELSE Throw(r, UfWrappedStatus(404))
  /\ UNCHANGED <<bookings, temp, timers, gateway, clock, ticks, made, failed, quote, coupons>>

\* await ...update({ fare, updatedAt }); the service returns
UfWrite(r) ==
  /\ req[r].pc = "uf_write"
  /\ bookings' = [bookings EXCEPT ![req[r].bid].fare = req[r].data.fare]
  /\ Goto(r, [req[r] EXCEPT !.pc = "uf_get"])
  /\ UNCHANGED <<temp, timers, gateway, clock, ticks, made, failed, quote, coupons>>

\* controller: const updatedBooking = await getBookingById(id), then
\* res.json; ok = FALSE is a store failure (500)
UfGet(r, ok) ==
  /\ req[r].pc = "uf_get"
  /\ IF ok THEN Answer(r, 200) ELSE Throw(r, 500)
  /\ UNCHANGED <<bookings, temp, timers, gateway, clock, ticks, made, failed, quote, coupons>>

\* ------------------------------------------------ PATCH /bookings/:id/pod
\* The booking router registers no route for it (updatePODSignature is
\* exported by the controller and the service, and nothing calls it): an
\* authenticated request falls through to the application's 404 fallback,
\* which answers success: false and touches no collection.
PatchPod ==
  /\ last' = [kind |-> "patchPod", resp |-> 404, success |-> FALSE,
              sent |-> {}, out |-> NoOut]
  /\ UNCHANGED req
  /\ UNCHANGED <<bookings, temp, timers, gateway, clock, ticks, made, failed, quote, coupons>>

\* ------------------------------------------------ staged booking store
\* getTempBookingData(merchantReferenceId): the staged record stored under
\* the sanitized id, NoTemp for null.  now is the time of the read.
getTempBookingData(tmp, ref, now) ==
  IF Sanitize(ref) \in DOMAIN tmp THEN tmp[Sanitize(ref)] ELSE NoTemp

\* storeTempBookingData: the document written under the sanitized id.  now is
\* Date.now() as read when set() is issued, before the write is awaited.
StagedDoc(uid, data, ref, now) ==
  [userId |-> uid, payload |-> data.payload, fare |-> data.fare,
   merchantReferenceId |-> ref, bookingId |-> NoId,
   expiresAt |-> now + TtlMs]

\* updateTempBookingData: update() of a missing document fails, and the
\* failure is caught and logged inside the function.
updateTempBookingData(tmp, tempId, bid) ==
  IF tempId \in DOMAIN tmp THEN [tmp EXCEPT ![tempId].bookingId = bid]
  ELSE tmp

\* deleteTempBookingData
deleteTempBookingData(tmp, tempId) == Drop(tmp, tempId)

\* ------------------------------------------- createPaymentPage (controller)
PagesInFlight == {q \in Reqs : req[q].pc \in {"cp_gateway"}}

\* POST /payments/create with { bookingId } or { bookingData }
StartCreatePage(r, uid, bid, data) ==
  /\ Free(r)
  /\ Cardinality(gateway) + Cardinality(PagesInFlight) < MaxPages
  /\ IF bid # NoId
     THEN Goto(r, [Idle EXCEPT !.kind = "createPage", !.pc = "cp_get",
                               !.uid = uid, !.role = "user", !.bid = bid])
     ELSE IF data # NoData
     THEN IF data.payload = "" THEN Reply("createPage", 400)
          ELSE IF data.fare <= 0 THEN Reply("createPage", 400)
          ELSE Goto(r, [Idle EXCEPT !.kind = "createPage",
                          !.pc = "cp_gateway", !.uid = uid, !.role = "user",
                          !.data = data, !.ref = TempRef(uid, clock)])
     ELSE Reply("createPage", 400)
  /\ UNCHANGED <<bookings, temp, timers, gateway, clock, ticks, made, failed, quote, coupons>>

\* !booking.fare is false for every number but 0 (and for undefined)
Truthy(fare) == fare # NoFare /\ fare # 0

\* booking = await getBookingById(bookingId) and the checks on it
CpGetIgnoringPaid(r) ==
  /\ req[r].pc = "cp_get"
  /\ IF req[r].bid \notin DOMAIN bookings THEN Throw(r, 404)
     ELSE IF bookings[req[r].bid].userId # req[r].uid THEN Throw(r, 403)
     ELSE IF ~ Truthy(bookings[req[r].bid].fare) THEN Throw(r, 400)
     ELSE Goto(r, [req[r] EXCEPT !.pc = "cp_gateway",
                     !.data = [NoData EXCEPT !.fare = bookings[req[r].bid].fare],
                     !.ref = BookingRef(req[r].bid, clock)])
  /\ UNCHANGED <<bookings, temp, timers, gateway, clock, ticks, made, failed, quote, coupons>>
CpGet(r) ==
  /\ req[r].pc = "cp_get"
  /\ IF req[r].bid \notin DOMAIN bookings THEN Throw(r, 404)
     ELSE IF bookings[req[r].bid].userId # req[r].uid THEN Throw(r, 403)
     ELSE IF bookings[req[r].bid].paymentStatus = "paid" THEN Throw(r, 400)
     ELSE IF ~ Truthy(bookings[req[r].bid].fare) THEN Throw(r, 400)
     ELSE Goto(r, [req[r] EXCEPT !.pc = "cp_gateway",
                     !.data = [NoData EXCEPT !.fare = bookings[req[r].bid].fare],
                     !.ref = BookingRef(req[r].bid, clock)])
  /\ UNCHANGED <<bookings, temp, timers, gateway, clock, ticks, made, failed, quote, coupons>>

\* The catch blocks of paygicService: an HTTP error answer with a body is
\* rethrown with its status (error.response.status); everything else, a
\* call without an answer or an answer rejected inside the try block, is
\* rethrown as 500.  http = 0 stands for "no error.response".
PaygicErrorStatus(http) == IF http = 0 THEN 500 ELSE http

\* await paygicService.createPaymentPage(...): http = 200 is a payment page,
\* anything else a gateway error
CpGatewayStoringFirst(r, http) ==
  /\ req[r].pc = "cp_gateway"
  /\ IF http = 200
     THEN /\ gateway' = gateway \cup {req[r].ref}
          /\ temp' = temp
          /\ IF req[r].bid = NoId
             THEN Goto(r, [req[r] EXCEPT !.pc = "cp_store",
                                         !.calledAt = clock])
             ELSE Answer(r, 200)
     ELSE /\ Throw(r, PaygicErrorStatus(http))
          /\ temp' = IF req[r].bid = NoId
                     THEN Put(temp, Sanitize(req[r].ref),
                              StagedDoc(req[r].uid, req[r].data, req[r].ref,
                                        clock))
                     ELSE temp
          /\ UNCHANGED gateway
  /\ UNCHANGED <<bookings, timers, clock, ticks, made, failed, quote, coupons>>
CpGateway(r, http) ==
  /\ req[r].pc = "cp_gateway"
  /\ IF http = 200
     THEN /\ gateway' = gateway \cup {req[r].ref}
          /\ IF req[r].bid = NoId
             THEN Goto(r, [req[r] EXCEPT !.pc = "cp_store",
                                         !.calledAt = clock])
             ELSE Answer(r, 200)
     ELSE /\ Throw(r, PaygicErrorStatus(http))
          /\ UNCHANGED gateway
  /\ UNCHANGED <<bookings, temp, timers, clock, ticks, made, failed, quote, coupons>>

\* await storeTempBookingData(userId, bookingData, merchantReferenceId): the
\* write lands; its expiresAt was computed when the gateway answered.
CpStore(r) ==
  /\ req[r].pc = "cp_store"
  /\ temp' = Put(temp, Sanitize(req[r].ref),
                 StagedDoc(req[r].uid, req[r].data, req[r].ref,
                           req[r].calledAt))
  /\ Answer(r, 200)
  /\ UNCHANGED <<bookings, timers, gateway, clock, ticks, made, failed, quote, coupons>>

\* ----------------------------------------------- handleWebhook (controller)
\* What handleWebhook does with a staged record it has just read:
\* "create" (SUCCESS), "delete" (FAILED), "ack" (anything else),
\* "notfound" when getTempBookingData returned null.
StagedOutcome(tempData, txnStatus) ==
  IF tempData = NoTemp THEN "notfound"
  ELSE IF txnStatus = "SUCCESS" THEN "create"
  ELSE IF txnStatus = "FAILED" THEN "delete"
  ELSE "ack"

\* POST /payments/webhook, up to the first await
StartWebhook(r, valid, txnStatus, ref) ==
  /\ Free(r)
  /\ IF ~ valid THEN Reply("webhook", 400)
     ELSE IF IsTempRef(ref)
     THEN Goto(r, [Idle EXCEPT !.kind = "webhook", !.pc = "wh_getTemp",
                               !.ref = ref, !.arg = txnStatus])
     ELSE IF txnStatus = "SUCCESS"
     THEN Goto(r, [Idle EXCEPT !.kind = "webhook", !.pc = "ups_read",
                     !.ref = ref, !.bid = FirstPart(ref), !.arg = "paid"])
     ELSE IF txnStatus = "FAILED"
     THEN Goto(r, [Idle EXCEPT !.kind = "webhook", !.pc = "ups_read",
                     !.ref = ref, !.bid = FirstPart(ref), !.arg = "failed"])
     ELSE /\ last' = [kind |-> "webhook", resp |-> 200, success |-> TRUE,
                      out |-> NoOut,
                      sent |-> {}]
          /\ UNCHANGED req
  /\ UNCHANGED <<bookings, temp, timers, gateway, clock, ticks, made, failed, quote, coupons>>

\* tempBookingData = await getTempBookingData(merchantReferenceId)
WhGetTemp(r) ==
  /\ req[r].pc = "wh_getTemp"
  /\ LET tempData == getTempBookingData(temp, req[r].ref, clock)
         outcome  == StagedOutcome(tempData, req[r].arg)
     IN IF outcome = "notfound" THEN Throw(r, 404)
        ELSE IF outcome = "create"
        THEN Goto(r, [req[r] EXCEPT !.pc = "cb_tracking",
                        !.data = [userId |-> tempData.userId,
                                  payload |-> tempData.payload,
                                  fare |-> tempData.fare,
                                  method |-> "online"]])
        ELSE IF outcome = "delete"
        THEN Goto(r, [req[r] EXCEPT !.pc = "wh_delete"])
        ELSE Answer(r, 200)
  /\ UNCHANGED <<bookings, temp, timers, gateway, clock, ticks, made, failed, quote, coupons>>

\* await updateTempBookingData(tempId, booking.id); setTimeout(delete, 60000)
WhAttach(r) ==
  /\ req[r].pc = "wh_attach"
  /\ temp' = updateTempBookingData(temp, Sanitize(req[r].ref), req[r].bid)
  /\ timers' = timers \cup {[tempId |-> Sanitize(req[r].ref),
                             due |-> clock + GraceDelayMs]}
  /\ Answer(r, 200)
  /\ UNCHANGED <<bookings, gateway, clock, ticks, made, failed, quote, coupons>>

\* FAILED: await deleteTempBookingData(tempId)
WhDelete(r) ==
  /\ req[r].pc = "wh_delete"
  /\ temp' = deleteTempBookingData(temp, Sanitize(req[r].ref))
  /\ failed' = failed \cup {req[r].ref}
  /\ Answer(r, 200)
  /\ UNCHANGED <<bookings, timers, gateway, clock, ticks, made, quote, coupons>>

\* the setTimeout callback of the SUCCESS branch
TimerFire(t) ==
  /\ t \in timers
  /\ clock >= t.due
  /\ temp' = deleteTempBookingData(temp, t.tempId)
  /\ timers' = timers \ {t}
  /\ UNCHANGED <<bookings, gateway, clock, ticks, req, last, made, failed, quote, coupons>>

\* ---------------------------------------------- paymentSuccess (controller)
\* GET /payments/success?merchantRefId=...
StartSuccess(r, ref) ==
  /\ Free(r)
  /\ IF ref = NoId THEN Reply("success", 400)
     ELSE Goto(r, [Idle EXCEPT !.kind = "success", !.pc = "ps_check",
                               !.ref = ref])
  /\ UNCHANGED <<bookings, temp, timers, gateway, clock, ticks, made, failed, quote, coupons>>

\* statusResponse = await paygicService.checkPaymentStatus(merchantRefId)
\* result is the gateway's answer: http = 200 with its txnStatus, or a
\* failed call; txn keeps statusResponse.txnStatus for the rest of the
\* request
PsCheckTrusting(r, result) ==
  /\ req[r].pc = "ps_check"
  /\ IF result.http # 200 THEN Throw(r, PaygicErrorStatus(result.http))
     ELSE IF IsTempRef(req[r].ref)
     THEN Goto(r, [req[r] EXCEPT !.pc = "ps_getTemp",
                                 !.arg = result.txnStatus,
                                 !.txn = result.txnStatus])
     ELSE Goto(r, [req[r] EXCEPT !.pc = "ups_read", !.arg = "paid",
                                 !.txn = result.txnStatus,
                                 !.bid = FirstPart(req[r].ref)])
  /\ UNCHANGED <<bookings, temp, timers, gateway, clock, ticks, made, failed, quote, coupons>>
PsCheck(r, result) ==
  /\ req[r].pc = "ps_check"
  /\ IF result.http # 200 THEN Throw(r, PaygicErrorStatus(result.http))
     ELSE IF result.txnStatus # "SUCCESS" THEN Answer(r, 200)
     ELSE IF IsTempRef(req[r].ref)
     THEN Goto(r, [req[r] EXCEPT !.pc = "ps_getTemp",
                                 !.arg = result.txnStatus,
                                 !.txn = result.txnStatus])
     ELSE Goto(r, [req[r] EXCEPT !.pc = "ups_read", !.arg = "paid",
                                 !.txn = result.txnStatus,
                                 !.bid = FirstPart(req[r].ref)])
  /\ UNCHANGED <<bookings, temp, timers, gateway, clock, ticks, made, failed, quote, coupons>>

\* tempBookingData = await getTempBookingData(merchantRefIdStr)
PsGetTemp(r) ==
  /\ req[r].pc = "ps_getTemp"
  /\ LET tempData == getTempBookingData(temp, req[r].ref, clock)
     IN IF tempData # NoTemp /\ tempData.bookingId # NoId
        THEN Answer(r, 200)
        ELSE Throw(r, 404)
  /\ UNCHANGED <<bookings, temp, timers, gateway, clock, ticks, made, failed, quote, coupons>>

\* ----------------------------------------------- paymentFailed (controller)
\* GET /payments/failed?merchantRefId=...: answers 200 { success: false }
PaymentFailed(ref) ==
  /\ last' = [kind |-> "paymentFailed", resp |-> 200, success |-> FALSE,
              out |-> NoOut,
              sent |-> {}]
  /\ UNCHANGED <<bookings, temp, timers, gateway, clock, ticks, req, made,
                 failed, quote, coupons>>

\* ------------------------------------------ checkPaymentStatus (controller)
\* POST /payments/status { merchantReferenceId }
StartCheckStatus(r, ref) ==
  /\ Free(r)
  /\ IF ref = NoId THEN Reply("status", 400)
     ELSE Goto(r, [Idle EXCEPT !.kind = "status", !.pc = "cs_check",
                               !.ref = ref])
  /\ UNCHANGED <<bookings, temp, timers, gateway, clock, ticks, made, failed, quote, coupons>>

\* status = await paygicService.checkPaymentStatus(merchantReferenceId)
CsCheck(r, result) ==
  /\ req[r].pc = "cs_check"
  /\ IF result.http # 200 THEN Throw(r, PaygicErrorStatus(result.http))
     ELSE Answer(r, 200)
  /\ UNCHANGED <<bookings, temp, timers, gateway, clock, ticks, made, failed, quote, coupons>>

\* ------------------------------------------------------- the fare quote
\* Fares, GST and order amounts are whole currency units.  A coupon discount
\* and the final fare are kept in hundredths of a unit, so that the division
\* by 100 of validateCoupon is exact: discountAmount100 = 9440 is 94.4.
\* A numeric field that is 0 also stands for the field being absent: the
\* code tests those fields for truthiness only (x && ..., x || 18).

\* Math.round(n / 100) for an integer n: the nearest integer, halves up
RoundDiv100(n) == (n + 50) \div 100

Min(a, b) == IF a <= b THEN a ELSE b

\* String.prototype.trim, toLowerCase and toUpperCase on the strings used
TrimStr(s) == CASE s = " delhi"   -> "delhi"
                [] s = "MUMBAI "  -> "MUMBAI"
                [] s = " save10 " -> "save10"
                [] OTHER          -> s
LowerStr(s) == CASE s \in {"Mumbai", "MUMBAI"} -> "mumbai"
                 [] s = "Delhi"                -> "delhi"
                 [] OTHER                      -> s
UpperStr(s) == CASE s = "save10" -> "SAVE10"
                 [] OTHER        -> s

\* the three kinds of caller of the admin routes: a customer, a co-admin
\* (role admin) and the super admin (role admin with the super admin's
\* phone number)
FareCallers == {"user", "admin", "superadmin"}
\* requireRole("admin")
IsAdmin(role) == role \in {"admin", "superadmin"}
\* requireRole("admin") followed by requireSuperAdmin
IsSuperAdmin(role) == role = "superadmin"

BookingVars == <<bookings, temp, timers, gateway, clock, ticks, made, failed>>

\* an answer that is sent in the step the request arrives in, after its
\* only await
ReplyDone(kind, code, success) ==
  /\ last' = [kind |-> kind, resp |-> code, success |-> success,
              sent |-> {}, out |-> NoOut]
  /\ UNCHANGED req

\* ---- settings/pricing
\* DEFAULT_PRICING
DefaultGstPercent == 18
MinimumFare == 50
DEFAULT_PRICING ==
  [baseRates |-> << [minKm |-> 0,  maxKm |-> 40, maxWeight |-> 3, fare |-> 50,
                     applyGst |-> "false"],
                    [minKm |-> 41, maxKm |-> 60, maxWeight |-> 5, fare |-> 70,
                     applyGst |-> "true"] >>,
   gstPercent |-> DefaultGstPercent]

\* the document that set(settings) without merge leaves
PricingDoc(settings) ==
  [exists |-> TRUE, hasRates |-> TRUE, baseRates |-> settings.baseRates,
   gstPercent |-> settings.gstPercent]

\* getPricingSettings, for the document its get() returned: DEFAULT_PRICING
\* when there is none (after GpsSet has written it), else
\* data.baseRates || DEFAULT_PRICING.baseRates and
\* data.gstPercent ?? DEFAULT_PRICING.gstPercent
getPricingSettings(doc) ==
  IF ~ doc.exists THEN DEFAULT_PRICING
  ELSE [baseRates |-> IF doc.hasRates THEN doc.baseRates
                      ELSE DEFAULT_PRICING.baseRates,
        gstPercent |-> IF doc.gstPercent = NotGiven
                       THEN DEFAULT_PRICING.gstPercent
                       ELSE doc.gstPercent]

\* updatePricingSettings: set(updateData, { merge: true }), the fields of
\* the request replace those of the stored document
updatePricingSettings(doc, settings) ==
  [exists |-> TRUE,
   hasRates |-> doc.hasRates \/ settings.hasRates,
   baseRates |-> IF settings.hasRates THEN settings.baseRates
                 ELSE doc.baseRates,
   gstPercent |-> IF settings.gstPercent # NotGiven THEN settings.gstPercent
                  ELSE doc.gstPercent]

\* rate.applyGst ?? true ("unset" is undefined)
ApplyGstOf(rate) == rate.applyGst # "false"

\* the loop over baseRates: index of the first matching rate from i on, 0
\* when there is none
RECURSIVE FirstMatch(_, _, _, _)
FirstMatch(rates, i, distanceInKm, weightInKg) ==
  IF i > Len(rates) THEN 0
  ELSE IF /\ distanceInKm >= rates[i].minKm
          /\ distanceInKm <= rates[i].maxKm
          /\ weightInKg <= rates[i].maxWeight
       THEN i
       ELSE FirstMatch(rates, i + 1, distanceInKm, weightInKg)

\* baseRates.reduce((prev, current) => prev.fare > current.fare ? prev : current)
\* over rates[1..n], n >= 1
RECURSIVE HighestRate(_, _)
HighestRate(rates, n) ==
  IF n = 1 THEN rates[1]
  ELSE LET prev == HighestRate(rates, n - 1)
       IN IF prev.fare > rates[n].fare THEN prev ELSE rates[n]

\* calculateFare, given the settings getPricingSettings returned
calculateFare(pricingSettings, distanceInKm, weightInKg) ==
  LET rates == pricingSettings.baseRates
      m     == FirstMatch(rates, 1, distanceInKm, weightInKg)
      rate  == IF m # 0 THEN rates[m]
               ELSE IF Len(rates) > 0 THEN HighestRate(rates, Len(rates))
               ELSE [fare |-> 0, applyGst |-> "false"]
      baseFare == IF rate.fare = 0 THEN MinimumFare ELSE rate.fare
      applyGst == IF rate.fare = 0 THEN FALSE ELSE ApplyGstOf(rate)
      gstPercent == IF pricingSettings.gstPercent = 0 THEN DefaultGstPercent
                    ELSE pricingSettings.gstPercent
      gst == IF applyGst THEN RoundDiv100(baseFare * gstPercent) ELSE 0
  IN [baseFare |-> baseFare, gst |-> gst, totalFare |-> baseFare + gst]

\* ---- city routes
\* the document upsertCityRoute writes under id (gstPercent || 18)
RouteDoc(id, routeData) ==
  [id |-> id,
   fromCity |-> TrimStr(routeData.fromCity),
   toCity |-> TrimStr(routeData.toCity),
   baseFare |-> routeData.baseFare, heavyFare |-> routeData.heavyFare,
   gstPercent |-> IF routeData.gstPercent = 0 THEN DefaultGstPercent
                  ELSE routeData.gstPercent,
   isActive |-> TRUE]

\* where("fromCity", "==", fromCity).where("toCity", "==", toCity).limit(1):
\* index of the first stored route with exactly these city names, 0 if none
RECURSIVE ExistingRoute(_, _, _, _)
ExistingRoute(routes, i, fromCity, toCity) ==
  IF i > Len(routes) THEN 0
  ELSE IF routes[i].fromCity = fromCity /\ routes[i].toCity = toCity THEN i
  ELSE ExistingRoute(routes, i + 1, fromCity, toCity)

InsertAt(seq, pos, x) ==
  SubSeq(seq, 1, pos - 1) \o <<x>> \o SubSeq(seq, pos, Len(seq))

\* getCityRoute: the first active document, in snapshot order, whose cities
\* match the pair in either direction after trim().toLowerCase()
RECURSIVE getCityRoute(_, _, _, _)
getCityRoute(routes, i, fromCity, toCity) ==
  LET fromCityNorm == LowerStr(TrimStr(fromCity))
      toCityNorm   == LowerStr(TrimStr(toCity))
  IN IF i > Len(routes) THEN NoRoute
     ELSE LET storedFromCity == LowerStr(TrimStr(routes[i].fromCity))
              storedToCity   == LowerStr(TrimStr(routes[i].toCity))
          IN IF /\ routes[i].isActive
                /\ \/ (storedFromCity = fromCityNorm /\ storedToCity = toCityNorm)
                   \/ (storedFromCity = toCityNorm /\ storedToCity = fromCityNorm)
             THEN routes[i]
             ELSE getCityRoute(routes, i + 1, fromCity, toCity)

\* the city-route branch of calculateBookingFare
HeavyFromKg == 3
CityFareHeavyFromFive(cityRoute, weight) ==
  LET gstPercent == IF cityRoute.gstPercent = 0 THEN DefaultGstPercent
                    ELSE cityRoute.gstPercent
      baseFare == IF weight >= 5 THEN cityRoute.heavyFare
                  ELSE cityRoute.baseFare
      gst == RoundDiv100(baseFare * gstPercent)
  IN [baseFare |-> baseFare, gst |-> gst, totalFare |-> baseFare + gst]
CityFare(cityRoute, weight) ==
  LET gstPercent == IF cityRoute.gstPercent = 0 THEN DefaultGstPercent
                    ELSE cityRoute.gstPercent
      baseFare == IF weight <= HeavyFromKg THEN cityRoute.baseFare
                  ELSE cityRoute.heavyFare
      gst == RoundDiv100(baseFare * gstPercent)
  IN [baseFare |-> baseFare, gst |-> gst, totalFare |-> baseFare + gst]

\* ---- coupons
\* where("code", "==", code).limit(1): the first stored coupon with this
\* code, in snapshot order
RECURSIVE FindCoupon(_, _, _)
FindCoupon(docs, i, code) ==
  IF i > Len(docs) THEN NoCoupon
  ELSE IF docs[i].code = code THEN docs[i]
  ELSE FindCoupon(docs, i + 1, code)

\* validateCoupon(code, orderAmount) against the stored coupons, at time
\* now; discountAmount100 is discountAmount in hundredths
validateCoupon(docs, code, orderAmount, now) ==
  LET normalizedCode == UpperStr(TrimStr(code))
      coupon == FindCoupon(docs, 1, normalizedCode)
      invalid == [isValid |-> FALSE, discountAmount100 |-> 0,
                  coupon |-> NoCoupon]
      percentage == orderAmount * coupon.discountValue
      discount100 ==
        IF coupon.discountType = "percentage"
        THEN IF coupon.maxDiscountAmount # 0
                  /\ percentage > 100 * coupon.maxDiscountAmount
             THEN 100 * coupon.maxDiscountAmount
             ELSE percentage
        ELSE 100 * coupon.discountValue
  IN IF coupon = NoCoupon THEN invalid
     ELSE IF ~ coupon.isActive THEN invalid
     ELSE IF now < coupon.validFrom THEN invalid
     ELSE IF now > coupon.validUntil THEN invalid
     ELSE IF coupon.minOrderAmount # 0 /\ orderAmount < coupon.minOrderAmount
          THEN invalid
     ELSE IF coupon.maxUsage # 0 /\ coupon.currentUsage >= coupon.maxUsage
          THEN invalid
     ELSE [isValid |-> TRUE, coupon |-> coupon,
           discountAmount100 |-> Min(discount100, 100 * orderAmount)]

\* validateCoupon's answer when its query fails, and the quote's state
\* without a coupon code
NoResult == [isValid |-> FALSE, discountAmount100 |-> 0, coupon |-> NoCoupon]

\* ---- POST /map/fare (mapController.calculateBookingFare)
SamePincodeKm == 20
DifferentPincodeKm == 50
\* pickupPincode.length === 6 on the pincodes used
IsSixChars(s) == s \in {"400001", "110001"}

\* distanceInKm: 20 for one six-character pincode on both sides, else the
\* distance calculateDistance gives for the coordinates (coordsKm) when
\* both are given, else 50 for two different pincodes; NotGiven where the
\* code throws 400 (coordinates out of range, neither coordinates nor
\* pincodes)
DistanceOf(body) ==
  IF /\ body.pickupPincode # "" /\ body.dropPincode # ""
     /\ body.pickupPincode = body.dropPincode
     /\ IsSixChars(body.pickupPincode)
  THEN SamePincodeKm
  ELSE IF body.coords # "none"
  THEN IF body.coords = "valid" THEN body.coordsKm ELSE NotGiven
  ELSE IF /\ body.pickupPincode # "" /\ body.dropPincode # ""
          /\ body.pickupPincode # body.dropPincode
  THEN DifferentPincodeKm
  ELSE NotGiven

\* the data of res.json: finalFare and discountAmount in hundredths
QuoteOut(q, couponResult) ==
  [distanceInKm |-> IF q.via = "city" THEN 0 ELSE q.distanceInKm,
   baseFare |-> q.fare.baseFare, gst |-> q.fare.gst,
   totalFare |-> q.fare.totalFare,
   finalFare100 |-> 100 * q.fare.totalFare
                      - (IF couponResult.isValid
                         THEN couponResult.discountAmount100 ELSE 0),
   discountAmount100 |-> IF couponResult.isValid
                         THEN couponResult.discountAmount100 ELSE 0,
   couponValid |-> couponResult.isValid,
   coupon |-> IF couponResult.isValid THEN couponResult.coupon
              ELSE NoCoupon]

\* what follows the fare, with the locals q: validateCoupon when the body
\* has a couponCode, else res.json
QuotePriced(r, q) ==
  IF q.body.couponCode # ""
  THEN Goto(r, [req[r] EXCEPT !.pc = "q_coupon", !.q = q])
  ELSE AnswerWith(r, TRUE, QuoteOut(q, NoResult))

\* the activation record of an accepted request: with both cities it waits
\* for the import of cityService and the query of getCityRoute, without
\* them for calculateFare's getPricingSettings
QuoteSlot(body) ==
  IF body.pickupCity # "" /\ body.dropCity # ""
  THEN [Idle EXCEPT !.kind = "quote", !.pc = "q_route",
                    !.q = [NoQ EXCEPT !.body = body]]
  ELSE [Idle EXCEPT !.kind = "quote", !.pc = "gps_get",
                    !.q = [NoQ EXCEPT !.body = body,
                                      !.distanceInKm = DistanceOf(body)]]

\* what calculateBookingFare throws before its first await: the weight
\* check and, without both cities, the distance
QuoteRejected(body) ==
  \/ body.weight <= 0
  \/ /\ ~ (body.pickupCity # "" /\ body.dropCity # "")
     /\ DistanceOf(body) = NotGiven

StartQuote(r, body) ==
  /\ Free(r)
  /\ IF QuoteRejected(body) THEN Reply("quote", 400)
     ELSE Goto(r, QuoteSlot(body))
  /\ UNCHANGED <<BookingVars, quote, coupons>>

\* const cityRoute = await getCityRoute(pickupCity.trim(), dropCity.trim());
\* ok = FALSE: the query fails, getCityRoute throws and the controller
\* falls through to standard pricing, as it does without a route
QuoteRoute(r, ok) ==
  /\ req[r].pc = "q_route"
  /\ LET body == req[r].q.body
         cityRoute == IF ok
                      THEN getCityRoute(quote.routes, 1,
                                        TrimStr(body.pickupCity),
                                        TrimStr(body.dropCity))
                      ELSE NoRoute
     IN IF cityRoute # NoRoute
        THEN QuotePriced(r, [req[r].q EXCEPT
                               !.via = "city", !.route = cityRoute,
                               !.fare = CityFare(cityRoute, body.weight)])
        ELSE IF DistanceOf(body) = NotGiven THEN Throw(r, 400)
        ELSE Goto(r, [req[r] EXCEPT !.pc = "gps_get",
                                    !.q.distanceInKm = DistanceOf(body)])
  /\ UNCHANGED <<BookingVars, quote, coupons>>

\* what the caller of getPricingSettings does with the settings:
\* calculateFare computes the fare, getPricing and updatePricing answer
GpsReturn(r, settings) ==
  IF req[r].kind = "quote"
  THEN QuotePriced(r, [req[r].q EXCEPT
                         !.via = "standard", !.settings = settings,
                         !.fare = calculateFare(settings,
                                                req[r].q.distanceInKm,
                                                req[r].q.body.weight)])
  ELSE Answer(r, 200)

\* getPricingSettings: const pricingDoc = await ...doc("pricing").get();
\* ok = FALSE: the get fails and the catch returns DEFAULT_PRICING
GpsGet(r, ok) ==
  /\ req[r].pc = "gps_get"
  /\ IF ok /\ ~ quote.pricing.exists
     THEN Goto(r, [req[r] EXCEPT !.pc = "gps_set"])
     ELSE GpsReturn(r, IF ok THEN getPricingSettings(quote.pricing)
                       ELSE DEFAULT_PRICING)
  /\ UNCHANGED <<BookingVars, quote, coupons>>

\* getPricingSettings: await ...doc("pricing").set(DEFAULT_PRICING), whatever
\* the document holds by now; written or not, the caller gets
\* DEFAULT_PRICING
GpsSet(r, ok) ==
  /\ req[r].pc = "gps_set"
  /\ quote' = IF ok
              THEN [quote EXCEPT !.pricing = PricingDoc(DEFAULT_PRICING)]
              ELSE quote
  /\ GpsReturn(r, DEFAULT_PRICING)
  /\ UNCHANGED <<BookingVars, coupons>>

\* const couponResult = await validateCoupon(couponCode, totalFare); a
\* failing query is caught inside validateCoupon (isValid false)
QuoteCoupon(r, ok) ==
  /\ req[r].pc = "q_coupon"
  /\ LET q == req[r].q
         couponResult ==
           IF ok THEN validateCoupon(coupons.docs, q.body.couponCode,
                                     q.fare.totalFare, clock)
           ELSE NoResult
     IN AnswerWith(r, TRUE, QuoteOut(q, couponResult))
  /\ UNCHANGED <<BookingVars, quote, coupons>>

\* ---- GET and PUT /map/admin/pricing
StartGetPricing(r, role) ==
  /\ Free(r)
  /\ IF ~ IsAdmin(role) THEN Reply("getPricing", 403)
     ELSE Goto(r, [Idle EXCEPT !.kind = "getPricing", !.pc = "gps_get"])
  /\ UNCHANGED <<BookingVars, quote, coupons>>

\* updatePricing's checks of one rate
ValidRate(rate) ==
  ~ (rate.minKm < 0 \/ rate.maxKm < rate.minKm \/ rate.maxWeight <= 0
     \/ rate.fare < 0)

StartUpdatePricing(r, role, body) ==
  /\ Free(r)
  /\ IF ~ IsAdmin(role) THEN Reply("updatePricing", 403)
     ELSE IF body.hasRates
             /\ \E i \in 1..Len(body.baseRates) : ~ ValidRate(body.baseRates[i])
     THEN Reply("updatePricing", 400)
     ELSE IF body.gstPercent # NotGiven
             /\ (body.gstPercent < 0 \/ body.gstPercent > 100)
     THEN Reply("updatePricing", 400)
     ELSE Goto(r, [Idle EXCEPT !.kind = "updatePricing", !.pc = "upr_set",
                               !.pricing = body])
  /\ UNCHANGED <<BookingVars, quote, coupons>>

\* await updatePricingSettings(updateData), then getPricingSettings; a
\* failing write is thrown as a plain Error (500)
UpdatePricingSet(r, ok) ==
  /\ req[r].pc = "upr_set"
  /\ IF ok
     THEN /\ quote' = [quote EXCEPT
                         !.pricing = updatePricingSettings(@, req[r].pricing)]
          /\ Goto(r, [req[r] EXCEPT !.pc = "gps_get"])
     ELSE /\ Throw(r, 500)
          /\ UNCHANGED quote
  /\ UNCHANGED <<BookingVars, coupons>>

\* ---- POST /admin/cities/routes (upsertCityRoute)
\* requests that may still add a document to city_routes
RouteWriters == {q \in Reqs : req[q].kind = "upsertRoute"}

StartUpsertCityRoute(r, role, routeData) ==
  /\ Free(r)
  /\ Len(quote.routes) + Cardinality(RouteWriters) < MaxRoutes
  /\ IF ~ IsSuperAdmin(role) THEN Reply("upsertRoute", 403)
     ELSE IF routeData.fromCity = "" \/ routeData.toCity = ""
     THEN Reply("upsertRoute", 400)
     ELSE IF routeData.baseFare <= 0 \/ routeData.heavyFare <= 0
     THEN Reply("upsertRoute", 400)
     ELSE Goto(r, [Idle EXCEPT !.kind = "upsertRoute", !.pc = "ucr_query",
                               !.routeData = routeData])
  /\ UNCHANGED <<BookingVars, quote, coupons>>

\* const existingRoute = await ...where(fromCity).where(toCity).limit(1).get()
UcrQuery(r, ok) ==
  /\ req[r].pc = "ucr_query"
  /\ LET k == ExistingRoute(quote.routes, 1,
                            TrimStr(req[r].routeData.fromCity),
                            TrimStr(req[r].routeData.toCity))
     IN IF ~ ok THEN Throw(r, 500)
        ELSE IF k = 0 THEN Goto(r, [req[r] EXCEPT !.pc = "ucr_set"])
        ELSE Goto(r, [req[r] EXCEPT !.pc = "ucr_update",
                                    !.routeId = quote.routes[k].id])
  /\ UNCHANGED <<BookingVars, quote, coupons>>

\* await routeRef.set(firestoreData) for a new document, whose generated id
\* puts it at place pos of the collection, then the answer
UcrSet(r, pos) ==
  /\ req[r].pc = "ucr_set"
  /\ pos \in 1..(Len(quote.routes) + 1)
  /\ quote' = [quote EXCEPT
                 !.routes = InsertAt(@, pos, RouteDoc(Len(@) + 1,
                                                      req[r].routeData))]
  /\ Answer(r, 200)
  /\ UNCHANGED <<BookingVars, coupons>>

\* await ...doc(routeId).update(firestoreData)
UcrUpdate(r) ==
  /\ req[r].pc = "ucr_update"
  /\ quote' = [quote EXCEPT
                 !.routes = [i \in 1..Len(@) |->
                               IF @[i].id = req[r].routeId
                               THEN RouteDoc(@[i].id, req[r].routeData)
                               ELSE @[i]]]
  /\ Goto(r, [req[r] EXCEPT !.pc = "ucr_get"])
  /\ UNCHANGED <<BookingVars, coupons>>

\* const updated = await ...doc(routeId).get(), then the answer
UcrGet(r, ok) ==
  /\ req[r].pc = "ucr_get"
  /\ IF ok THEN Answer(r, 200) ELSE Throw(r, 500)
  /\ UNCHANGED <<BookingVars, quote, coupons>>

\* ---- DELETE /admin/cities/routes/:id (deleteCityRoute): one update that
\* sets isActive false; update() of a missing document fails (500)
deleteCityRoute(routes, routeId) ==
  [i \in 1..Len(routes) |->
     IF routes[i].id = routeId THEN [routes[i] EXCEPT !.isActive = FALSE]
     ELSE routes[i]]
DeleteCityRoute(role, routeId) ==
  /\ IF ~ IsSuperAdmin(role)
     THEN ReplyDone("deleteRoute", 403, FALSE) /\ UNCHANGED quote
     ELSE IF \E i \in 1..Len(quote.routes) : quote.routes[i].id = routeId
     THEN /\ quote' = [quote EXCEPT !.routes = deleteCityRoute(@, routeId)]
          /\ ReplyDone("deleteRoute", 200, TRUE)
     ELSE ReplyDone("deleteRoute", 500, FALSE) /\ UNCHANGED quote
  /\ UNCHANGED <<BookingVars, coupons>>

\* ---- the coupon service (couponService.ts)
\* The application mounts no coupon router (app.ts registers /auth, /user,
\* /admin, /bookings, /map, /api/payments and /analytics) and nothing calls
\* incrementCouponUsage: of the service only validateCoupon runs, from
\* POST /map/fare.  The documents of the collection are written outside
\* this application; their shape is the one the service stores.
\* the document createCoupon writes under id
CouponDoc(id, couponData) ==
  [id |-> id, code |-> UpperStr(couponData.code), isActive |-> TRUE,
   validFrom |-> couponData.validFrom, validUntil |-> couponData.validUntil,
   minOrderAmount |-> couponData.minOrderAmount,
   maxUsage |-> couponData.maxUsage, currentUsage |-> 0,
   discountType |-> couponData.discountType,
   discountValue |-> couponData.discountValue,
   maxDiscountAmount |-> couponData.maxDiscountAmount]

\* incrementCouponUsage(couponId): FieldValue.increment(1), unconditionally
incrementCouponUsage(doc) == [doc EXCEPT !.currentUsage = @ + 1]

\* updateCoupon(couponId, updates): every field of updates that is not
\* undefined is written as given
updateCoupon(doc, updates) ==
  [doc EXCEPT !.maxUsage = IF updates.maxUsage # NotGiven
                           THEN updates.maxUsage ELSE @,
              !.isActive = updates.isActive]

\* a request to /coupons/...: no router is mounted on that path, so the
\* application's 404 fallback answers success: false and touches no
\* collection
CouponRequest ==
  /\ last' = [kind |-> "coupons", resp |-> 404, success |-> FALSE,
              sent |-> {}, out |-> NoOut]
  /\ UNCHANGED req
  /\ UNCHANGED <<BookingVars, quote, coupons>>

\* ------------------------------------------------------------ inputs
\* a merchant reference id nobody staged, with a character that is sanitized
ForgedRefs == { <<"temp", "u#", "0", "0">>,
                <<"PW", "01", "01", "2026", "001", "0">> }
\* a booking id that was never generated
UnknownId == <<"PW", "00", "00", "0000", "000">>
KnownRefs == gateway \cup ForgedRefs
KnownIds  == (DOMAIN bookings) \cup {UnknownId}
Callers   == { [uid |-> "u1", role |-> "user"], [uid |-> "u2", role |-> "user"],
               [uid |-> "a1", role |-> "admin"] }
\* bookingData bodies of POST /payments/create
StageRequests ==
  { [userId |-> "u1", payload |-> "pA", fare |-> 100, method |-> "online"],
    [userId |-> "u2", payload |-> "pB", fare |-> 0,   method |-> "online"] }

\* outcomes of a gateway call: a good answer, no answer, an HTTP 401 with
\* a body
GatewayAnswers == {200, 0, 401}
CheckAnswers ==
  { [http |-> 200, txnStatus |-> s] : s \in TxnStatuses }
  \cup { [http |-> h, txnStatus |-> ""] : h \in GatewayAnswers \ {200} }

\* fares of PATCH /bookings/:id/fare bodies (NoFare: no fare in the body)
FareValues == {NoFare, -5, 0, 120}
\* the body of a POST /coupons that createCoupon accepts
ValidCouponBody ==
  [code |-> "SAVE10", discountType |-> "percentage", discountValue |-> 10,
   minOrderAmount |-> 0, maxDiscountAmount |-> 100, maxUsage |-> 0,
   validFrom |-> 0, validUntil |-> DayMs]
\* bodies of POST /admin/cities/routes
RouteRequests ==
  [ A |-> [fromCity |-> "Mumbai", toCity |-> "Delhi", baseFare |-> 500,
           heavyFare |-> 800, gstPercent |-> 18],
    Z |-> [fromCity |-> " delhi", toCity |-> "MUMBAI ", baseFare |-> 500,
           heavyFare |-> 800, gstPercent |-> 0],
    B |-> [fromCity |-> "Delhi", toCity |-> "Mumbai", baseFare |-> 600,
           heavyFare |-> 900, gstPercent |-> 5],
    U |-> [fromCity |-> "Mumbai", toCity |-> "Delhi", baseFare |-> 520,
           heavyFare |-> 820, gstPercent |-> 12],
    N |-> [fromCity |-> "", toCity |-> "Delhi", baseFare |-> 500,
           heavyFare |-> 800, gstPercent |-> 18],
    F |-> [fromCity |-> "Mumbai", toCity |-> "Delhi", baseFare |-> 0,
           heavyFare |-> 800, gstPercent |-> 18] ]
RouteBodies == { RouteRequests[k] : k \in DOMAIN RouteRequests }
\* route ids of requests: the ids upsertCityRoute can have given, and one
\* more
RouteIds == 1..(MaxRoutes + 1)

\* bodies of PUT /map/admin/pricing
PricingBodies ==
  { [hasRates |-> FALSE, baseRates |-> << >>, gstPercent |-> 0],
    [hasRates |-> TRUE, baseRates |-> << >>, gstPercent |-> 18],
    [hasRates |-> TRUE,
     baseRates |-> << [minKm |-> 0,  maxKm |-> 40, maxWeight |-> 3,
                       fare |-> 0, applyGst |-> "true"],
                      [minKm |-> 41, maxKm |-> 60, maxWeight |-> 5,
                       fare |-> 70, applyGst |-> "true"] >>,
     gstPercent |-> NotGiven],
    [hasRates |-> TRUE,
     baseRates |-> << [minKm |-> 0,  maxKm |-> 40, maxWeight |-> 3,
                       fare |-> 50, applyGst |-> "unset"],
                      [minKm |-> 41, maxKm |-> 60, maxWeight |-> 5,
                       fare |-> 90, applyGst |-> "unset"] >>,
     gstPercent |-> 12],
    [hasRates |-> TRUE,
     baseRates |-> << [minKm |-> 41, maxKm |-> 40, maxWeight |-> 3,
                       fare |-> 50, applyGst |-> "true"] >>,
     gstPercent |-> 18],
    [hasRates |-> FALSE, baseRates |-> << >>, gstPercent |-> 101] }

\* bodies of POST /map/fare: the cities, the pincodes, the coordinates
\* (with the distance calculateDistance gives for them), the weight and
\* the coupon code
FareCities == { <<"", "">>, <<"Mumbai", "Delhi">>, <<" delhi", "MUMBAI ">>,
                <<"Mumbai", "">> }
FarePincodes == { <<"", "">>, <<"400001", "400001">>,
                  <<"400001", "110001">> }
FareCoordinates == { <<"none", 0>>, <<"valid", 45>>, <<"valid", 70>>,
                     <<"invalid", 0>> }
FareBodies ==
  { [pickupCity |-> c[1], dropCity |-> c[2], pickupPincode |-> p[1],
     dropPincode |-> p[2], coords |-> k[1], coordsKm |-> k[2],
     weight |-> w, couponCode |-> cc] :
      c \in FareCities, p \in FarePincodes, k \in FareCoordinates,
      w \in {0, 2, 3, 4, 6}, cc \in {"", " save10 "} }

NextTime ==
  \/ \E d \in {GraceDelayMs, 2 * TtlMs} : Tick(d)
  \/ \E t \in timers : TimerFire(t)

NextCreate ==
  \E r \in Reqs, body \in DirectRequests : StartCreateBooking(r, body)

\* the steps of bookingService.createBooking, whoever called it
NextCb ==
  \/ \E r \in Reqs : CbTracking(r)
  \/ \E r \in Reqs : CbGenId(r)
  \/ \E r \in Reqs, ok \in BOOLEAN : CbSet(r, ok)
  \/ \E r \in Reqs, ok \in BOOLEAN : CbGet(r, ok)

\* the steps of bookingService.updatePaymentStatus, whoever called it
NextUps ==
  \/ \E r \in Reqs : UpsRead(r)
  \/ \E r \in Reqs, ok \in BOOLEAN : UpsWrite(r, ok)
  \/ \E r \in Reqs : UpsNotifyPayment(r)
  \/ \E r \in Reqs : UpsNotifyStatus(r)

NextPatchPayment ==
  \/ \E r \in Reqs, c \in Callers, bid \in KnownIds,
        ps \in ValidPaymentStatuses \cup {"unpaid"} :
          StartPatchPayment(r, c.role, bid, ps)
  \/ \E r \in Reqs, ok \in BOOLEAN : UpsGet(r, ok)

NextPatchStatus ==
  \/ \E r \in Reqs, c \in Callers, bid \in KnownIds,
        st \in BookingStatuses, reason \in {"", "damaged"} :
          StartPatchStatus(r, c.uid, c.role, bid, st, reason)
  \/ \E r \in Reqs : UbsCtl(r)
  \/ \E r \in Reqs : UbsRead(r)
  \/ \E r \in Reqs : UbsWrite(r)
  \/ \E r \in Reqs : UbsNotify(r)
  \/ \E r \in Reqs, ok \in BOOLEAN : UbsGet(r, ok)

NextPage ==
  \/ \E r \in Reqs, u \in Users, bid \in DOMAIN bookings :
        StartCreatePage(r, u, bid, NoData)
  \/ \E r \in Reqs, body \in StageRequests :
        StartCreatePage(r, body.userId, NoId, body)
  \/ \E r \in Reqs : CpGet(r)
  \/ \E r \in Reqs, http \in GatewayAnswers : CpGateway(r, http)
  \/ \E r \in Reqs : CpStore(r)

NextWebhook ==
  \/ \E r \in Reqs, ref \in KnownRefs, txn \in TxnStatuses :
        StartWebhook(r, TRUE, txn, ref)
  \/ \E r \in Reqs : StartWebhook(r, FALSE, "SUCCESS", NoId)
  \/ \E r \in Reqs : WhGetTemp(r)
  \/ \E r \in Reqs : WhAttach(r)
  \/ \E r \in Reqs : WhDelete(r)

NextSuccess ==
  \/ \E r \in Reqs, ref \in KnownRefs \cup {NoId} : StartSuccess(r, ref)
  \/ \E r \in Reqs, result \in CheckAnswers : PsCheck(r, result)
  \/ \E r \in Reqs : PsGetTemp(r)
  \/ \E ref \in KnownRefs : PaymentFailed(ref)

NextCheckStatus ==
  \/ \E r \in Reqs, ref \in KnownRefs \cup {NoId} : StartCheckStatus(r, ref)
  \/ \E r \in Reqs, result \in CheckAnswers : CsCheck(r, result)

NextPatchFare ==
  \/ \E r \in Reqs, c \in Callers, bid \in KnownIds, fare \in FareValues :
        StartPatchFare(r, c.role, bid, fare)
  \/ \E r \in Reqs : UfRead(r)
  \/ \E r \in Reqs : UfWrite(r)
  \/ \E r \in Reqs, ok \in BOOLEAN : UfGet(r, ok)

NextPatchPod ==
  \/ PatchPod

\* requests to the unmounted /coupons paths
NextCoupon ==
  \/ CouponRequest

\* the steps of POST /map/fare after the request was accepted, and of
\* getPricingSettings, whoever called it
NextQuoteSteps ==
  \/ \E r \in Reqs, ok \in BOOLEAN : QuoteRoute(r, ok)
  \/ \E r \in Reqs, ok \in BOOLEAN : GpsGet(r, ok)
  \/ \E r \in Reqs, ok \in BOOLEAN : GpsSet(r, ok)
  \/ \E r \in Reqs, ok \in BOOLEAN : QuoteCoupon(r, ok)

\* POST /map/fare, GET and PUT /map/admin/pricing, POST and DELETE
\* /admin/cities/routes
NextQuote ==
  \/ \E r \in Reqs, body \in FareBodies : StartQuote(r, body)
  \/ NextQuoteSteps
  \/ \E r \in Reqs, role \in FareCallers : StartGetPricing(r, role)
  \/ \E r \in Reqs, role \in FareCallers, body \in PricingBodies :
        StartUpdatePricing(r, role, body)
  \/ \E r \in Reqs, ok \in BOOLEAN : UpdatePricingSet(r, ok)
  \/ \E r \in Reqs, role \in FareCallers, routeData \in RouteBodies :
        StartUpsertCityRoute(r, role, routeData)
  \/ \E r \in Reqs, ok \in BOOLEAN : UcrQuery(r, ok)
  \/ \E r \in Reqs, pos \in 1..(Len(quote.routes) + 1) : UcrSet(r, pos)
  \/ \E r \in Reqs : UcrUpdate(r)
  \/ \E r \in Reqs, ok \in BOOLEAN : UcrGet(r, ok)
  \/ \E role \in FareCallers, routeId \in RouteIds :
        DeleteCityRoute(role, routeId)

\* every handler of the model
Next ==
  \/ NextTime
  \/ NextCreate
  \/ NextCb
  \/ NextUps
  \/ NextPatchPayment
  \/ NextPatchStatus
  \/ NextPage
  \/ NextWebhook
  \/ NextSuccess
  \/ NextCheckStatus
  \/ NextQuote
  \/ NextPatchFare
  \/ NextPatchPod
  \/ NextCoupon

Spec == Init /\ [][Next]_vars

\* Staged reconciliation: Initiate with booking data, gateway callbacks,
\* verified redirects, the grace-delay timer and the clock.
NextStaged ==
  \/ \E d \in {GraceDelayMs, 2 * TtlMs} : Tick(d)
  \/ \E t \in timers : TimerFire(t)
  \/ \E r \in Reqs, body \in StageRequests :
        StartCreatePage(r, body.userId, NoId, body)
  \/ \E r \in Reqs, http \in GatewayAnswers : CpGateway(r, http)
  \/ \E r \in Reqs : CpStore(r)
  \/ NextWebhook
  \/ NextCb
  \/ NextUps

SpecStaged == Init /\ [][NextStaged]_vars

\* The webhook endpoint by itself: Initiate with booking data and every
\* kind of callback the public endpoint can receive, store failures
\* included.  No handler of this specification reads the clock after
\* Initiate, so time does not advance in it.
NextWebhookOnly ==
  \/ \E r \in Reqs, body \in StageRequests :
        StartCreatePage(r, body.userId, NoId, body)
  \/ \E r \in Reqs, http \in GatewayAnswers : CpGateway(r, http)
  \/ \E r \in Reqs : CpStore(r)
  \/ NextWebhook
  \/ NextCb
  \/ NextUps

SpecWebhook == Init /\ [][NextWebhookOnly]_vars

\* The redirect endpoints next to the webhook: Initiate with booking data,
\* gateway callbacks, the verified success redirect, the failed redirect and
\* the status check.
NextRedirect ==
  \/ \E r \in Reqs, body \in StageRequests :
        StartCreatePage(r, body.userId, NoId, body)
  \/ \E r \in Reqs, http \in GatewayAnswers : CpGateway(r, http)
  \/ \E r \in Reqs : CpStore(r)
  \/ \E r \in Reqs, ref \in KnownRefs : StartWebhook(r, TRUE, "SUCCESS", ref)
  \/ \E r \in Reqs : WhGetTemp(r)
  \/ \E r \in Reqs : WhAttach(r)
  \/ \E r \in Reqs : CbTracking(r)
  \/ \E r \in Reqs : CbGenId(r)
  \/ \E r \in Reqs : CbSet(r, TRUE)
  \/ \E r \in Reqs : CbGet(r, TRUE)
  \/ \E r \in Reqs : UpsRead(r)
  \/ \E r \in Reqs : UpsWrite(r, TRUE)
  \/ \E r \in Reqs : UpsNotifyPayment(r)
  \/ \E r \in Reqs : UpsNotifyStatus(r)
  \/ \E r \in Reqs, ref \in KnownRefs : StartSuccess(r, ref)
  \/ \E r \in Reqs, result \in CheckAnswers : PsCheck(r, result)
  \/ \E r \in Reqs : PsGetTemp(r)
  \/ \E ref \in KnownRefs : PaymentFailed(ref)
  \/ \E r \in Reqs, ref \in gateway \cup {NoId} : StartCheckStatus(r, ref)
  \/ \E r \in Reqs, result \in CheckAnswers : CsCheck(r, result)

SpecRedirect == Init /\ [][NextRedirect]_vars

\* Initiate for an existing booking: direct creation, POST /payments/create
\* with a booking id, and the admin's payment-status update.
PayBodies ==
  { [userId |-> "u2", payload |-> "pB", fare |-> 250, method |-> "online"] }

NextPayExisting ==
  \/ \E r \in Reqs, body \in PayBodies : StartCreateBooking(r, body)
  \/ \E r \in Reqs : CbTracking(r)
  \/ \E r \in Reqs : CbGenId(r)
  \/ \E r \in Reqs : CbSet(r, TRUE)
  \/ \E r \in Reqs : CbGet(r, TRUE)
  \/ \E r \in Reqs, u \in Users, bid \in DOMAIN bookings :
        StartCreatePage(r, u, bid, NoData)
  \/ \E r \in Reqs : CpGet(r)
  \/ \E r \in Reqs, http \in GatewayAnswers : CpGateway(r, http)
  \/ \E r \in Reqs, bid \in DOMAIN bookings :
        StartPatchPayment(r, "admin", bid, "paid")
  \/ \E r \in Reqs, ok \in BOOLEAN : UpsGet(r, ok)
  \/ \E r \in Reqs : UpsRead(r)
  \/ \E r \in Reqs : UpsWrite(r, TRUE)
  \/ \E r \in Reqs : UpsNotifyPayment(r)
  \/ \E r \in Reqs : UpsNotifyStatus(r)

SpecPayExisting == Init /\ [][NextPayExisting]_vars

\* The fare quote: one accepted request of POST /map/fare against every
\* kind of store the admin handlers leave. The city routes are those
\* upsertCityRoute and deleteCityRoute store for the requests A, Z, B and U,
\* the pricing document is absent (getPricingSettings then writes the
\* default) or what PUT /map/admin/pricing stores on an empty collection,
\* and the coupon is a document as the coupon service stores it
\* (createCoupon, then incrementCouponUsage or updateCoupon).
StoredRoutes ==
  { << >>,
    << RouteDoc(1, RouteRequests.A) >>,
    << RouteDoc(1, RouteRequests.Z) >>,
    << RouteDoc(1, RouteRequests.A), RouteDoc(2, RouteRequests.B) >>,
    << RouteDoc(2, RouteRequests.B), RouteDoc(1, RouteRequests.A) >>,
    << RouteDoc(1, RouteRequests.U) >>,
    deleteCityRoute(<< RouteDoc(1, RouteRequests.A) >>, 1) }

PricingDocs ==
  { NoPricing, PricingDoc(DEFAULT_PRICING) }
  \cup { updatePricingSettings(NoPricing, b) :
           b \in { x \in PricingBodies :
                     /\ x.gstPercent <= 100
                     /\ \A i \in 1..Len(x.baseRates) :
                          ValidRate(x.baseRates[i]) } }

ValidCoupon == CouponDoc(1, ValidCouponBody)
Coupons ==
  { ValidCoupon,
    [ValidCoupon EXCEPT !.discountValue = 50, !.maxDiscountAmount = 0],
    [ValidCoupon EXCEPT !.discountType = "fixed", !.discountValue = 200],
    [ValidCoupon EXCEPT !.discountType = "fixed", !.discountValue = 2000,
                        !.maxDiscountAmount = 0],
    [ValidCoupon EXCEPT !.minOrderAmount = 1000],
    incrementCouponUsage([ValidCoupon EXCEPT !.maxUsage = 1]),
    updateCoupon(ValidCoupon, [maxUsage |-> NotGiven, isActive |-> FALSE]),
    [ValidCoupon EXCEPT !.validFrom = -2 * DayMs, !.validUntil = -DayMs],
    [ValidCoupon EXCEPT !.code = "OTHER"] }
StoredCoupons == { << >> } \cup { <<c>> : c \in Coupons }

InitQuote ==
  /\ bookings = << >>
  /\ temp = << >>
  /\ timers = {}
  /\ gateway = {}
  /\ clock = 0
  /\ ticks = 0
  /\ \E body \in {b \in FareBodies : ~ QuoteRejected(b)} :
        req = [r \in Reqs |-> IF r = 1 THEN QuoteSlot(body) ELSE Idle]
  /\ last = NoAnswer
  /\ made = << >>
  /\ failed = {}
  /\ quote \in [routes : StoredRoutes, pricing : PricingDocs]
  /\ coupons \in [docs : StoredCoupons]

SpecQuote == InitQuote /\ [][NextQuoteSteps]_vars

\* City-route quotes: one accepted request of POST /map/fare against the
\* stores of SpecQuote, with a city_routes collection that answers its
\* query.
NextCityQuote ==
  \/ \E r \in Reqs : QuoteRoute(r, TRUE)
  \/ \E r \in Reqs, ok \in BOOLEAN : GpsGet(r, ok)
  \/ \E r \in Reqs, ok \in BOOLEAN : GpsSet(r, ok)
  \/ \E r \in Reqs, ok \in BOOLEAN : QuoteCoupon(r, ok)

SpecCityQuote == InitQuote /\ [][NextCityQuote]_vars

\* Mutations of a booking id that does not exist: direct creation, the
\* admin's payment-status and status updates of an unknown id, the admin's
\* fare updates of any id, and the proof-of-delivery request.
MutationBodies ==
  { [userId |-> "u1", payload |-> "pA", fare |-> 100, method |-> "cod"] }

NextMutations ==
  \/ \E r \in Reqs, body \in MutationBodies : StartCreateBooking(r, body)
  \/ \E r \in Reqs : CbTracking(r)
  \/ \E r \in Reqs : CbGenId(r)
  \/ \E r \in Reqs : CbSet(r, TRUE)
  \/ \E r \in Reqs : CbGet(r, TRUE)
  \/ \E r \in Reqs : StartPatchPayment(r, "admin", UnknownId, "paid")
  \/ \E r \in Reqs : UpsRead(r)
  \/ \E r \in Reqs : StartPatchStatus(r, "a1", "admin", UnknownId, "Picked", "")
  \/ \E r \in Reqs : UbsCtl(r)
  \/ \E r \in Reqs, bid \in KnownIds, fare \in FareValues :
        StartPatchFare(r, "admin", bid, fare)
  \/ \E r \in Reqs : UfRead(r)
  \/ \E r \in Reqs : UfWrite(r)
  \/ \E r \in Reqs, ok \in BOOLEAN : UfGet(r, ok)
  \/ PatchPod

SpecMutations == Init /\ [][NextMutations]_vars

\* Returned parcels: direct creation and PATCH /bookings/:id/status with
\* and without a return reason.
ReturnRequests ==
  { [uid |-> "a1", role |-> "admin", status |-> "Returned", reason |-> ""],
    [uid |-> "a1", role |-> "admin", status |-> "Returned",
     reason |-> "damaged"] }

NextReturned ==
  \/ \E r \in Reqs, body \in MutationBodies : StartCreateBooking(r, body)
  \/ \E r \in Reqs : CbTracking(r)
  \/ \E r \in Reqs : CbGenId(r)
  \/ \E r \in Reqs : CbSet(r, TRUE)
  \/ \E r \in Reqs : CbGet(r, TRUE)
  \/ \E r \in Reqs, bid \in DOMAIN bookings, q \in ReturnRequests :
        StartPatchStatus(r, q.uid, q.role, bid, q.status, q.reason)
  \/ \E r \in Reqs : UbsCtl(r)
  \/ \E r \in Reqs : UbsRead(r)
  \/ \E r \in Reqs : UbsWrite(r)
  \/ \E r \in Reqs : UbsNotify(r)
  \/ \E r \in Reqs, ok \in BOOLEAN : UbsGet(r, ok)

SpecReturned == Init /\ [][NextReturned]_vars

\* Booking lifecycle: direct creation and the admin's payment-status
\* updates.
LifecycleBodies ==
  { [userId |-> "u1", payload |-> "pA", fare |-> 100, method |-> "cod"],
    [userId |-> "u2", payload |-> "pB", fare |-> 100, method |-> "online"] }

NextLifecycle ==
  \/ \E r \in Reqs, body \in LifecycleBodies : StartCreateBooking(r, body)
  \/ \E r \in Reqs : CbTracking(r)
  \/ \E r \in Reqs : CbGenId(r)
  \/ \E r \in Reqs : CbSet(r, TRUE)
  \/ \E r \in Reqs : CbGet(r, TRUE)
  \/ \E r \in Reqs, bid \in DOMAIN bookings, ps \in {"paid", "failed"} :
        StartPatchPayment(r, "admin", bid, ps)
  \/ \E r \in Reqs, ok \in BOOLEAN : UpsGet(r, ok)
  \/ \E r \in Reqs : UpsRead(r)
  \/ \E r \in Reqs : UpsWrite(r, TRUE)
  \/ \E r \in Reqs : UpsNotifyPayment(r)
  \/ \E r \in Reqs : UpsNotifyStatus(r)

SpecLifecycle == Init /\ [][NextLifecycle]_vars

\* Status updates of an online booking: direct creation, PATCH
\* /bookings/:id/status by the admin and by the owner, and the admin's
\* payment-status update to paid.
StatusBodies ==
  { [userId |-> "u2", payload |-> "pB", fare |-> 100, method |-> "online"] }
LifecycleStatusRequests ==
  { [uid |-> "a1", role |-> "admin", status |-> "Picked"],
    [uid |-> "a1", role |-> "admin", status |-> "Created"],
    [uid |-> "u2", role |-> "user",  status |-> "Created"] }

NextStatus ==
  \/ \E r \in Reqs, body \in StatusBodies : StartCreateBooking(r, body)
  \/ \E r \in Reqs : CbTracking(r)
  \/ \E r \in Reqs : CbGenId(r)
  \/ \E r \in Reqs : CbSet(r, TRUE)
  \/ \E r \in Reqs : CbGet(r, TRUE)
  \/ \E r \in Reqs, bid \in DOMAIN bookings :
        StartPatchPayment(r, "admin", bid, "paid")
  \/ \E r \in Reqs : UpsGet(r, TRUE)
  \/ \E r \in Reqs : UpsRead(r)
  \/ \E r \in Reqs : UpsWrite(r, TRUE)
  \/ \E r \in Reqs : UpsNotifyPayment(r)
  \/ \E r \in Reqs : UpsNotifyStatus(r)
  \/ \E r \in Reqs, bid \in DOMAIN bookings, q \in LifecycleStatusRequests :
        StartPatchStatus(r, q.uid, q.role, bid, q.status, "")
  \/ \E r \in Reqs : UbsCtl(r)
  \/ \E r \in Reqs : UbsRead(r)
  \/ \E r \in Reqs : UbsWrite(r)
  \/ \E r \in Reqs : UbsNotify(r)
  \/ \E r \in Reqs : UbsGet(r, TRUE)

SpecStatus == Init /\ [][NextStatus]_vars

\* Payment of an existing booking: direct creation, Initiate with a booking
\* id, gateway callbacks and verified redirects for the references issued,
\* and the admin's payment-status update.
NextExisting ==
  \/ \E r \in Reqs, body \in LifecycleBodies : StartCreateBooking(r, body)
  \/ \E r \in Reqs : CbTracking(r)
  \/ \E r \in Reqs : CbGenId(r)
  \/ \E r \in Reqs : CbSet(r, TRUE)
  \/ \E r \in Reqs : CbGet(r, TRUE)
  \/ \E r \in Reqs, u \in Users, bid \in DOMAIN bookings :
        StartCreatePage(r, u, bid, NoData)
  \/ \E r \in Reqs : CpGet(r)
  \/ \E r \in Reqs, http \in GatewayAnswers : CpGateway(r, http)
  \/ \E r \in Reqs, ref \in gateway, txn \in TxnStatuses :
        StartWebhook(r, TRUE, txn, ref)
  \/ \E r \in Reqs, ref \in gateway : StartSuccess(r, ref)
  \/ \E r \in Reqs, result \in CheckAnswers : PsCheck(r, result)
  \/ \E r \in Reqs, bid \in DOMAIN bookings :
        StartPatchPayment(r, "admin", bid, "paid")
  \/ \E r \in Reqs, ok \in BOOLEAN : UpsGet(r, ok)
  \/ \E r \in Reqs : UpsRead(r)
  \/ \E r \in Reqs : UpsWrite(r, TRUE)
  \/ \E r \in Reqs : UpsNotifyPayment(r)
  \/ \E r \in Reqs : UpsNotifyStatus(r)

SpecExisting == Init /\ [][NextExisting]_vars

\* ======================================================== the claims

\* C1: no booking is ever PendingPayment together with paid.
C1_NeverPendingPaymentAndPaid ==
  \A id \in DOMAIN bookings :
    ~ (bookings[id].status = "PendingPayment"
       /\ bookings[id].paymentStatus = "paid")

\* C2: SUCCESS reconciliation of one staged merchant reference id, however
\* often it runs, writes at most one permanent booking.
C2_AtMostOneBookingPerStagedRef ==
  \A ref \in DOMAIN made : IsTempRef(ref) => made[ref] <= 1

\* C3: no booking with paymentMethod online is stored while its
\* paymentStatus is still pending.
C3_NoOnlineBookingWhilePending ==
  \A id \in DOMAIN bookings :
    bookings[id].paymentMethod = "online"
      => bookings[id].paymentStatus # "pending"

\* C4: once handleWebhook has processed FAILED for a staged reference id,
\* its staged record is gone and no booking created from it exists.
C4_FailedRefHasNoBooking ==
  \A ref \in failed :
    /\ Sanitize(ref) \notin DOMAIN temp
    /\ (ref \in DOMAIN made => made[ref] = 0)

\* C5: a staged record whose expiry has passed is absent for
\* getTempBookingData.
C5_ExpiredStagedRecordIsAbsent ==
  \A tempId \in DOMAIN temp :
    temp[tempId].expiresAt < clock
      => getTempBookingData(temp, temp[tempId].merchantReferenceId, clock)
           = NoTemp

\* C6: a SUCCESS outcome for a reference id that createPaymentPage issued for
\* an existing booking B is applied to B: the updatePaymentStatus call made
\* for it targets the booking id the reference was built from.
IssuedFor(ref) == SubSeq(ref, 1, Len(ref) - 1)
C6_SuccessReachesTheBooking ==
  \A r \in Reqs :
    (req[r].kind \in {"webhook", "success"}
       /\ req[r].ref \in gateway /\ ~ IsTempRef(req[r].ref)
       /\ req[r].pc \in {"ups_read", "ups_write"})
    => req[r].bid = IssuedFor(req[r].ref)

\* C7: every answer of handleWebhook has HTTP status 200.
C7_WebhookAlwaysAnswers200 ==
  last.kind = "webhook" => last.resp = 200
\* handleWebhook answered after its processing threw
C7_Witness ==
  last.kind = "webhook" /\ last.resp = 200 /\ ~ last.success
    /\ bookings # << >>

\* C8: PendingPayment implies paymentMethod online and paymentStatus not paid.
C8_PendingPaymentIsOnlineAndUnpaid ==
  \A id \in DOMAIN bookings :
    bookings[id].status = "PendingPayment"
      => /\ bookings[id].paymentMethod = "online"
         /\ bookings[id].paymentStatus # "paid"

\* C9: every change of a booking's paymentStatus is pending->paid,
\* pending->failed or paid->refunded.
PaymentEdges == { <<"pending", "paid">>, <<"pending", "failed">>,
                  <<"paid", "refunded">> }
C9_PaymentStatusFollowsEdges ==
  [][ \A id \in DOMAIN bookings :
        bookings'[id].paymentStatus # bookings[id].paymentStatus
          => <<bookings[id].paymentStatus, bookings'[id].paymentStatus>>
               \in PaymentEdges ]_vars

\* C10: every change of a booking's status follows
\* PendingPayment->Created->Picked->Shipped->Delivered or Created->Returned.
StatusEdges == { <<"PendingPayment", "Created">>, <<"Created", "Picked">>,
                 <<"Picked", "Shipped">>, <<"Shipped", "Delivered">>,
                 <<"Created", "Returned">> }
C10_StatusFollowsEdges ==
  [][ \A id \in DOMAIN bookings :
        bookings'[id].status # bookings[id].status
          => <<bookings[id].status, bookings'[id].status>> \in StatusEdges
    ]_vars

\* C11: when paymentSuccess completes for a staged reference id that the
\* gateway reports SUCCESS and whose staged record exists, a permanent
\* booking with paymentStatus paid exists for that reference id.
C11_RedirectAloneLeavesPaidBooking ==
  [][ \A r \in Reqs :
        LET tempData == getTempBookingData(temp, req[r].ref, clock)
        IN (req[r].kind = "success" /\ req[r].pc = "ps_getTemp"
              /\ req[r].txn = "SUCCESS" /\ req'[r].pc = "idle"
              /\ tempData # NoTemp)
           => /\ tempData.bookingId \in DOMAIN bookings'
              /\ bookings'[tempData.bookingId].paymentStatus = "paid"
    ]_vars

C13_SuccessLeavesOnePaidBookingAttached ==
  [][ \A r \in Reqs :
        (req[r].kind = "webhook" /\ req[r].pc = "wh_attach"
           /\ req'[r].pc = "idle")
        => /\ req[r].bid \in DOMAIN bookings'
           /\ bookings'[req[r].bid] =
                [NewBookingDoc(req[r].data, bookings'[req[r].bid].trackingNumber)
                   EXCEPT !.status = "Created", !.paymentStatus = "paid"]
           /\ req[r].data.method = "online"
           /\ made'[req[r].ref] = 1
           /\ Sanitize(req[r].ref) \in DOMAIN temp'
           /\ temp'[Sanitize(req[r].ref)].bookingId = req[r].bid
    ]_vars

\* C14: while Initiate with booking data is in progress, a reference id the
\* gateway already has a payment page for has its staged record stored.
C14_StagedBeforeGatewayHasThePage ==
  \A r \in Reqs :
    (req[r].kind = "createPage" /\ IsTempRef(req[r].ref)
       /\ req[r].ref \in gateway)
    => Sanitize(req[r].ref) \in DOMAIN temp

\* C15: createPaymentPage for an existing booking that is paid answers 400
\* without touching the gateway, the staged records or the bookings; when it
\* goes on to the gateway, the booking read was not paid and the amount is
\* the fare of that booking.
C15_PaidBookingIsRejectedBeforeGateway ==
  [][ \A r \in Reqs :
        (req[r].pc = "cp_get" /\ req'[r] # req[r])
        => /\ (req[r].bid \in DOMAIN bookings
                 /\ bookings[req[r].bid].userId = req[r].uid
                 /\ bookings[req[r].bid].paymentStatus = "paid")
              => /\ req'[r].pc = "idle"
                 /\ last'.kind = "createPage" /\ last'.resp = 400
                 /\ ~ last'.success
                 /\ UNCHANGED <<bookings, temp, gateway>>
           /\ req'[r].pc = "cp_gateway"
              => /\ bookings[req[r].bid].paymentStatus # "paid"
                 /\ req'[r].data.fare = bookings[req[r].bid].fare
    ]_vars
\* a paid booking's owner was refused a payment page
C15_Witness ==
  /\ last.kind = "createPage" /\ last.resp = 400 /\ ~ last.success
  /\ \E id \in DOMAIN bookings : bookings[id].paymentStatus = "paid"
  /\ \E r \in Reqs : req[r].pc = "cp_gateway" /\ req[r].data.fare = 250

\* C16: a request of createPaymentPage, checkPaymentStatus or paymentSuccess
\* changes neither collection up to and including its gateway call, and a
\* failed gateway call ends the request with an error answer.
GatewayCallers == {"createPage", "status", "success"}
C16_GatewayFailureChangesNothing ==
  [][ \A r \in Reqs :
        /\ (req'[r] # req[r]
              /\ \/ req[r].pc \in {"cp_get", "cp_gateway", "ps_check",
                                    "cs_check"}
                 \/ (req[r].pc = "idle" /\ req'[r].kind \in GatewayCallers))
           => UNCHANGED <<bookings, temp>>
        /\ (req[r].pc \in {"cp_gateway", "ps_check", "cs_check"}
              /\ req'[r].pc = "idle" /\ ~ last'.success)
           => /\ last'.kind = req[r].kind
              /\ last'.resp >= 400
    ]_vars
\* Initiate with booking data ended in a gateway error, nothing is staged
C16_Witness ==
  /\ last.kind = "createPage" /\ last.resp = 500 /\ ~ last.success
  /\ temp = << >> /\ gateway = {}

\* C17: a discount that validateCoupon reports for a valid coupon is at most
\* the order amount and, when the coupon has a max-discount cap, at most
\* that cap.
C17_DiscountWithinOrderAndCap ==
  (last.kind = "quote" /\ last.out.couponValid)
  => /\ last.out.discountAmount100 <= 100 * last.out.totalFare
     /\ last.out.coupon.maxDiscountAmount # 0
          => last.out.discountAmount100
               <= 100 * last.out.coupon.maxDiscountAmount

\* C18: calculateFare returns the fare of the first tier in list order that
\* contains the distance and admits the weight, else of the tier with the
\* highest fare, else 50 without GST for an empty rule set; GST is
\* round(fare x gstPercent / 100) when the tier's applyGst is true, else 0.
C18_ClaimedFare(pricingSettings, distanceInKm, weightInKg) ==
  LET rates == pricingSettings.baseRates
      m     == FirstMatch(rates, 1, distanceInKm, weightInKg)
      rate  == IF m # 0 THEN rates[m]
               ELSE IF Len(rates) > 0 THEN HighestRate(rates, Len(rates))
               ELSE [fare |-> 50, applyGst |-> "false"]
      gst   == IF rate.applyGst = "true"
               THEN RoundDiv100(rate.fare * pricingSettings.gstPercent)
               ELSE 0
  IN [baseFare |-> rate.fare, gst |-> gst, totalFare |-> rate.fare + gst]
C18_FareFollowsTheTiers ==
  \A r \in Reqs :
    (req[r].kind = "quote" /\ req[r].pc = "q_coupon"
       /\ req[r].q.via = "standard")
    => req[r].q.fare = C18_ClaimedFare(req[r].q.settings,
                                       req[r].q.distanceInKm,
                                       req[r].q.body.weight)

\* C19: when an active city route serves the supplied city pair (compared
\* trimmed and case-insensitively, in either direction), the quote is
\* baseFare up to 3 kg and heavyFare above, GST round(fare x gstPercent / 100)
\* with the route's stored gstPercent, total fare + GST, whatever the
\* distance, and the request with the cities swapped is quoted the same.
C19_Norm(city) == LowerStr(TrimStr(city))
C19_Serves(route, pickupCity, dropCity) ==
  /\ route.isActive
  /\ \/ /\ C19_Norm(route.fromCity) = C19_Norm(pickupCity)
        /\ C19_Norm(route.toCity) = C19_Norm(dropCity)
     \/ /\ C19_Norm(route.fromCity) = C19_Norm(dropCity)
        /\ C19_Norm(route.toCity) = C19_Norm(pickupCity)
C19_ClaimedCityFare(cityRoute, weight) ==
  LET fare == IF weight <= 3 THEN cityRoute.baseFare ELSE cityRoute.heavyFare
      gst  == RoundDiv100(fare * cityRoute.gstPercent)
  IN [baseFare |-> fare, gst |-> gst, totalFare |-> fare + gst]
\* request r is quoted fare by this step: the amounts go on to the coupon
\* check or are answered
C19_Quotes(r, fare) ==
  \/ /\ req'[r].pc = "q_coupon"
     /\ req'[r].q.via = "city"
     /\ req'[r].q.fare = fare
  \/ /\ req'[r].pc = "idle"
     /\ last'.kind = "quote" /\ last'.resp = 200 /\ last'.success
     /\ last'.out.baseFare = fare.baseFare
     /\ last'.out.gst = fare.gst
     /\ last'.out.totalFare = fare.totalFare
     /\ last'.out.distanceInKm = 0
C20_QuoteAmountsAreWhole ==
  (last.kind = "quote" /\ last.resp = 200)
  => /\ last.out.discountAmount100 % 100 = 0
     /\ last.out.finalFare100 % 100 = 0

\* C21: a booking mutation that a request can reach (updateBookingStatus,
\* updatePaymentStatus, updateFare; no route calls updatePODSignature) whose
\* read finds no booking under the id is answered 404 and creates no
\* booking document.
MutationReads == {"ubs_ctl", "ubs_read", "ups_read", "uf_read"}
MutationKinds == {"patchStatus", "patchPayment", "patchFare"}
C21_MissingBookingIs404 ==
  [][ \A r \in Reqs :
        (/\ req[r].pc \in MutationReads
         /\ req[r].kind \in MutationKinds
         /\ req[r].bid \notin DOMAIN bookings
         /\ req'[r] # req[r])
        => /\ last'.kind = req[r].kind
           /\ last'.resp = 404
           /\ bookings' = bookings
    ]_vars
\* C22: setting a booking's status to Returned without a return reason is
\* rejected with 400 and leaves the bookings unchanged, no such request gets
\* past the controller, and every booking with status Returned has a
\* non-empty returnReason and a returnedAt timestamp.
C22_ReturnedHasReason ==
  [][ /\ \A id \in DOMAIN bookings' :
           bookings'[id].status = "Returned"
           => /\ bookings'[id].returnReason # ""
              /\ bookings'[id].returnedAt # NoTime
      /\ \A r \in Reqs :
           (req'[r].kind = "patchStatus" /\ req'[r].arg = "Returned")
           => req'[r].reason # ""
      /\ (last' # last /\ last'.kind = "patchStatus" /\ last'.resp = 400)
           => /\ bookings' = bookings
              /\ req' = req
    ]_vars
\* a parcel was returned with a reason, and a later request was rejected
C22_Witness ==
  /\ last.kind = "patchStatus" /\ last.resp = 400
  /\ \E id \in DOMAIN bookings :
        /\ bookings[id].status = "Returned"
        /\ bookings[id].returnReason = "damaged"
        /\ bookings[id].returnedAt = clock
\* C23: a call of updateBookingStatus or updatePaymentStatus whose update
\* changed the stored status or payment status has dispatched, when it
\* returns, a notification for that transition, and a call whose update
\* stored the value already there has dispatched none of that kind.
InUpdateCall(pc) ==
  pc \in {"ups_write", "ups_notifyPayment", "ups_notifyStatus",
          "ubs_write", "ubs_notify"}
\* request r's update is made in this step (else it was made earlier)
WritesNow(r) == req[r].pc \in {"ups_write", "ubs_write"}
ReplacedBy(r) ==
  IF WritesNow(r) THEN bookings[req[r].bid] ELSE req[r].before
WrittenBy(r) ==
  IF WritesNow(r) THEN bookings'[req[r].bid] ELSE req[r].after
\* request r's call of the update function returns in this step
CallReturns(r) ==
  /\ InUpdateCall(req[r].pc) /\ req'[r] # req[r]
  /\ ~ InUpdateCall(req'[r].pc)
  /\ req[r].bid \in DOMAIN bookings
NotesAfter(r) == IF req'[r].pc = "idle" THEN last'.sent ELSE req'[r].sent
C23_EveryChangeIsNotified ==
  [][ \A r \in Reqs :
        CallReturns(r)
        => LET old == ReplacedBy(r)
               new == WrittenBy(r)
           IN /\ (new.paymentStatus # old.paymentStatus)
                 <=> (\E n \in NotesAfter(r) :
                        /\ n.type = "payment_status_update"
                        /\ n.newStatus = new.paymentStatus)
              /\ (new.status # old.status)
                 <=> (\E n \in NotesAfter(r) :
                        /\ n.type = "booking_status_update"
                        /\ n.oldStatus = old.status
                        /\ n.newStatus = new.status)
    ]_vars
\* C24: every stored booking's trackingNumber equals its document id, and
\* the id is PW-DD-MM-YYYY-NNN with NNN the number of one of the bookings
\* created so far.
C24_TrackingNumberIsTheId ==
  \A id \in DOMAIN bookings :
    /\ bookings[id].trackingNumber = id
    /\ \E k \in 1..TotalMade : id = <<"PW">> \o DateSegs(clock) \o <<Pad3(k)>>

\* C25: a booking, once created, is never replaced: there are as many
\* stored bookings as successful createBooking calls.
C25_OneDocumentPerCreate ==
  Cardinality(DOMAIN bookings) = TotalMade
\* C27: once a successful reconciliation has scheduled the deletion of a
\* staged record, the record is removed only by that timer, not before the
\* grace delay has elapsed, and with the bookingId written on it.
C27_StagedRecordOutlivesTheGraceDelay ==
  [][ \A id \in DOMAIN temp :
        (id \notin DOMAIN temp' /\ \E t \in timers : t.tempId = id)
        => /\ temp[id].bookingId # NoId
           /\ \E t \in timers : /\ t.tempId = id
                                 /\ clock >= t.due
                                 /\ t \notin timers'
    ]_vars
\* C28: a call updatePaymentStatus(b, paid) that found the booking paid,
\* when it read it and when it wrote, has left status and paymentStatus
\* as they were and has dispatched no notification when it returns.
C28_PaidTwiceIsPaidOnce ==
  [][ \A r \in Reqs :
        (/\ CallReturns(r) /\ req[r].arg = "paid"
         /\ req[r].pc \in {"ups_write", "ups_notifyPayment",
                            "ups_notifyStatus"}
         /\ req[r].snap.paymentStatus = "paid"
         /\ ReplacedBy(r).paymentStatus = "paid")
        => /\ WrittenBy(r).status = ReplacedBy(r).status
           /\ WrittenBy(r).paymentStatus = "paid"
           /\ NotesAfter(r) = {}
    ]_vars
\* C29: no PATCH /bookings/:id/status request of a non-admin caller takes
\* a booking from PendingPayment to Created while its paymentStatus is
\* pending or failed.
C29_OwnerCannotConfirmUnpaid ==
  [][ \A r \in Reqs :
        (/\ req[r].pc = "ubs_write" /\ req[r].role # "admin"
         /\ req'[r] # req[r])
        => ~ (/\ bookings[req[r].bid].status = "PendingPayment"
              /\ bookings'[req[r].bid].status = "Created"
              /\ bookings'[req[r].bid].paymentStatus \in {"pending", "failed"})
    ]_vars

\* C30: the write of updatePaymentStatus changes a booking's status only
\* from PendingPayment, the status stored at the moment of the write, to
\* Created.
C30_PaymentWriteKeepsLaterStatus ==
  [][ \A r \in Reqs :
        (/\ req[r].pc = "ups_write" /\ req'[r] # req[r]
         /\ req[r].bid \in DOMAIN bookings
         /\ bookings'[req[r].bid].status # bookings[req[r].bid].status)
        => /\ bookings[req[r].bid].status = "PendingPayment"
           /\ bookings'[req[r].bid].status = "Created"
    ]_vars
====
